---- MODULE Spec2Model ----
(***************************************************************************)
(* Model of the virtualOS AI-SDK port: the in-memory VirtualFileSystem     *)
(* (path resolution, write/read/delete/listDir/cd/grep, loadFromDisk)      *)
(* and the tools built on it (writeFile, readFile, runShell, fetchPaper).  *)
(*                                                                         *)
(* A JavaScript string is modelled as a sequence of one-character strings, *)
(* so that split, join, startsWith, slice and template concatenation are   *)
(* computed, not assumed.  A Map is modelled as the sequence of its        *)
(* entries in insertion order, which is the order the code iterates in.    *)
(***************************************************************************)
EXTENDS Integers, Sequences, FiniteSets

VARIABLES files, cwd, last

vars == <<files, cwd, last>>

----------------------------------------------------------------------------
(* String primitives of the host language, as the code uses them.          *)

\* String.prototype.startsWith
startsWith(s, p) == Len(p) <= Len(s) /\ SubSeq(s, 1, Len(p)) = p

\* String.prototype.endsWith
endsWith(s, p) == Len(p) <= Len(s) /\ SubSeq(s, Len(s) - Len(p) + 1, Len(s)) = p

\* String.prototype.slice(n): the string without its first n characters
slice(s, n) == SubSeq(s, n + 1, Len(s))

\* String.prototype.includes
includes(s, t) == \E i \in 1..(Len(s) - Len(t) + 1) : SubSeq(s, i, i + Len(t) - 1) = t

RECURSIVE split(_, _)
\* String.prototype.split(sep) for a one-character separator: "" gives [""],
\* "/a" gives ["", "a"], "a/" gives ["a", ""].  The string is halved, each half
\* split, and the part cut by the halving glued back together.
split(s, sep) ==
  IF Len(s) <= 1 THEN (IF s = <<sep>> THEN << <<>>, <<>> >> ELSE <<s>>)
  ELSE LET h == Len(s) \div 2
           l == split(SubSeq(s, 1, h), sep)
           r == split(SubSeq(s, h + 1, Len(s)), sep)
       IN SubSeq(l, 1, Len(l) - 1) \o << l[Len(l)] \o r[1] >> \o Tail(r)

RECURSIVE join(_, _)
\* Array.prototype.join(sep), by halves.
join(parts, sep) ==
  IF parts = <<>> THEN <<>>
  ELSE IF Len(parts) = 1 THEN parts[1]
  ELSE LET h == Len(parts) \div 2
       IN join(SubSeq(parts, 1, h), sep) \o sep \o join(SubSeq(parts, h + 1, Len(parts)), sep)

Digit(d) == <<"0", "1", "2", "3", "4", "5", "6", "7", "8", "9">>[d + 1]

RECURSIVE NumToString(_)
\* A non-negative integer interpolated into a template literal (decimal).
NumToString(n) == IF n < 10 THEN <<Digit(n)>> ELSE NumToString(n \div 10) \o <<Digit(n % 10)>>

----------------------------------------------------------------------------
(* VirtualFileSystem                                                       *)

VIRTUAL_ROOT == <<"/", "h", "o", "m", "e", "/", "u", "s", "e", "r">>

\* cwd.replace(/\/$/, "")
StripTrailingSlash(c) == IF endsWith(c, <<"/">>) THEN SubSeq(c, 1, Len(c) - 1) ELSE c

RECURSIVE NormalizePartsNoPop(_, _)
\* A faulty loop: ".." met with no retained part is kept as a part.
NormalizePartsNoPop(segs, parts) ==
  IF segs = <<>> THEN parts
  ELSE LET part == Head(segs) IN
       IF part = <<".", ".">>
         THEN NormalizePartsNoPop(Tail(segs),
                IF Len(parts) > 0 THEN SubSeq(parts, 1, Len(parts) - 1)
                ELSE Append(parts, part))
       ELSE IF part # <<>> /\ part # <<".">>
         THEN NormalizePartsNoPop(Tail(segs), Append(parts, part))
       ELSE NormalizePartsNoPop(Tail(segs), parts)

RECURSIVE NormalizeParts(_, _)
\* The loop of resolve over resolved.split("/"): ".." pops the last retained
\* part if there is one, "" and "." are dropped, anything else is pushed.
NormalizeParts(segs, parts) ==
  IF segs = <<>> THEN parts
  ELSE LET part == Head(segs) IN
       IF part = <<".", ".">>
         THEN NormalizeParts(Tail(segs),
                IF Len(parts) > 0 THEN SubSeq(parts, 1, Len(parts) - 1) ELSE parts)
       ELSE IF part # <<>> /\ part # <<".">>
         THEN NormalizeParts(Tail(segs), Append(parts, part))
       ELSE NormalizeParts(Tail(segs), parts)

\* A faulty resolve: an absolute path is joined to cwd too.
resolveAlwaysFromCwd(path, c) ==
  LET resolved == StripTrailingSlash(c) \o <<"/">> \o path
  IN <<"/">> \o join(NormalizeParts(split(resolved, "/"), <<>>), <<"/">>)

\* VirtualFileSystem.resolve, with this.cwd passed as c.
resolve(path, c) ==
  LET resolved == IF startsWith(path, <<"/">>) THEN path
                  ELSE StripTrailingSlash(c) \o <<"/">> \o path
  IN <<"/">> \o join(NormalizeParts(split(resolved, "/"), <<>>), <<"/">>)

\* Map.prototype.has / get / set / delete on the entry sequence.  set keeps the
\* position of an existing key and appends a new one; delete closes the gap.
MapHas(m, k) == \E i \in 1..Len(m) : m[i].path = k

MapGet(m, k) == m[CHOOSE i \in 1..Len(m) : m[i].path = k].content

\* A faulty set: an existing key keeps its old value.
MapSetIfAbsent(m, k, v) ==
  IF MapHas(m, k) THEN m ELSE Append(m, [path |-> k, content |-> v])

MapSet(m, k, v) ==
  IF MapHas(m, k)
    THEN [i \in 1..Len(m) |-> IF m[i].path = k THEN [path |-> k, content |-> v] ELSE m[i]]
    ELSE Append(m, [path |-> k, content |-> v])

\* A faulty delete: the entries below the key go with it.
MapDeleteTree(m, k) == SelectSeq(m, LAMBDA e : ~startsWith(e.path, k))

MapDelete(m, k) == SelectSeq(m, LAMBDA e : e.path # k)

MapKeys(m) == {m[i].path : i \in 1..Len(m)}

SuccessfullyWrote ==
  <<"S", "u", "c", "c", "e", "s", "s", "f", "u", "l", "l", "y", " ", "w", "r", "o", "t", "e", " ">>
CharsTo == <<" ", "c", "h", "a", "r", "s", " ", "t", "o", " ">>
ErrorFile == <<"E", "r", "r", "o", "r", ":", " ", "F", "i", "l", "e", " ">>
DoesNotExist ==
  <<" ", "d", "o", "e", "s", " ", "n", "o", "t", " ", "e", "x", "i", "s", "t", ".">>
NotFound == <<" ", "n", "o", "t", " ", "f", "o", "u", "n", "d">>
DeletedMsg == <<"D", "e", "l", "e", "t", "e", "d", " ">>
ChangedDirectoryTo ==
  <<"C", "h", "a", "n", "g", "e", "d", " ", "d", "i", "r", "e", "c", "t", "o", "r", "y", " ",
    "t", "o", " ">>
EmptyDirectory ==
  <<"(", "e", "m", "p", "t", "y", " ", "d", "i", "r", "e", "c", "t", "o", "r", "y", ")">>
NoMatchesFound ==
  <<"N", "o", " ", "m", "a", "t", "c", "h", "e", "s", " ", "f", "o", "u", "n", "d", ".">>

\* A faulty write: the entry is stored under the path as given.
writeUnresolved(fs, c, path, content) ==
  [files  |-> MapSet(fs, path, content),
   result |-> SuccessfullyWrote \o NumToString(Len(content)) \o CharsTo \o resolve(path, c)]

\* VirtualFileSystem.write: the new files and the returned string.
write(fs, c, path, content) ==
  LET fullPath == resolve(path, c) IN
  [files  |-> MapSet(fs, fullPath, content),
   result |-> SuccessfullyWrote \o NumToString(Len(content)) \o CharsTo \o fullPath]

\* VirtualFileSystem.read
read(fs, c, path) ==
  LET fullPath == resolve(path, c) IN
  IF ~MapHas(fs, fullPath) THEN ErrorFile \o fullPath \o DoesNotExist
  ELSE MapGet(fs, fullPath)

\* filePath.slice(targetDir.length).replace(/^\//, "")
RelativeTo(filePath, targetDir) ==
  LET rest == slice(filePath, Len(targetDir)) IN
  IF startsWith(rest, <<"/">>) THEN Tail(rest) ELSE rest

\* A faulty test: a nested remainder is kept too.
IsListedEvenNested(filePath, targetDir) ==
  /\ startsWith(filePath, targetDir)
  /\ RelativeTo(filePath, targetDir) # <<>>

\* The test of listDir's loop body: the key starts with targetDir and its
\* remainder is non-empty and holds no "/".
IsListed(filePath, targetDir) ==
  /\ startsWith(filePath, targetDir)
  /\ RelativeTo(filePath, targetDir) # <<>>
  /\ ~includes(RelativeTo(filePath, targetDir), <<"/">>)

RECURSIVE ListMatches(_, _, _)
\* The loop of listDir over this.files.keys(), in insertion order.
ListMatches(fs, targetDir, matches) ==
  IF fs = <<>> THEN matches
  ELSE LET filePath == Head(fs).path IN
       ListMatches(Tail(fs), targetDir,
         IF IsListed(filePath, targetDir)
           THEN Append(matches, RelativeTo(filePath, targetDir))
           ELSE matches)

\* VirtualFileSystem.listDir
listDir(fs, c, path) ==
  LET matches == ListMatches(fs, resolve(path, c), <<>>) IN
  IF Len(matches) = 0 THEN EmptyDirectory ELSE join(matches, <<"\n">>)

\* A faulty delete: the entry is looked up resolved but removed as given.
deleteUnresolved(fs, c, path) ==
  LET fullPath == resolve(path, c) IN
  IF MapHas(fs, fullPath)
    THEN [files |-> MapDelete(fs, path), result |-> DeletedMsg \o fullPath]
    ELSE [files |-> fs, result |-> ErrorFile \o fullPath \o NotFound]

\* VirtualFileSystem.delete: the new files and the returned string.
delete(fs, c, path) ==
  LET fullPath == resolve(path, c) IN
  IF MapHas(fs, fullPath)
    THEN [files |-> MapDelete(fs, fullPath), result |-> DeletedMsg \o fullPath]
    ELSE [files |-> fs, result |-> ErrorFile \o fullPath \o NotFound]

\* A faulty cd: the path is resolved from the initial directory.
cdFromInitial(c, path) ==
  LET newCwd == resolve(IF path = <<>> THEN <<".">> ELSE path, VIRTUAL_ROOT) IN
  [cwd |-> newCwd, result |-> ChangedDirectoryTo \o newCwd]

\* VirtualFileSystem.cd: the new cwd and the returned string (path || ".").
cd(c, path) ==
  LET newCwd == resolve(IF path = <<>> THEN <<".">> ELSE path, c) IN
  [cwd |-> newCwd, result |-> ChangedDirectoryTo \o newCwd]

\* grep's path parameter when the caller passes none.
Undefined == <<"undefined">>

DirMarker == <<"/", ".", "d", "i", "r">>
Separator == <<"-", "-">>
GREP_CAP == 100
FoundMsg == <<"F", "o", "u", "n", "d", " ">>
LinesShowingFirst ==
  <<" ", "l", "i", "n", "e", "s", " ", "(", "s", "h", "o", "w", "i", "n", "g", " ",
    "f", "i", "r", "s", "t", " ">>
CloseParenColon == <<")", ":", "\n">>

\* What a call evaluates to when new RegExp(pattern) throws a SyntaxError.
ThrownSyntaxError == <<"throw SyntaxError">>

\* Whether new RegExp(pattern) accepts the pattern, for patterns made of
\* literal characters, ".", and the malformed uses of "[", "(" and a leading
\* quantifier: an unterminated class, an unterminated group, nothing to repeat.
RegexValid(pattern) ==
  /\ \A i \in 1..Len(pattern) :
       pattern[i] \in {"[", "("} =>
         \E j \in (i + 1)..Len(pattern) : pattern[j] = (IF pattern[i] = "[" THEN "]" ELSE ")")
  /\ ~(pattern # <<>> /\ pattern[1] \in {"*", "+", "?"})

\* The pattern matches the line at position i: "." stands for any character
\* but a line terminator, any other character for itself.
MatchesAt(pattern, line, i) ==
  \A j \in 1..Len(pattern) :
    IF pattern[j] = "." THEN line[i + j - 1] \notin {"\n", "\r"}
    ELSE pattern[j] = line[i + j - 1]

\* new RegExp(pattern).test(line) for a valid pattern of literal characters
\* and ".": the pattern matches somewhere in the line.
RegexTest(pattern, line) ==
  \E i \in 1..(Len(line) - Len(pattern) + 1) : MatchesAt(pattern, line, i)

Max(a, b) == IF a >= b THEN a ELSE b
Min(a, b) == IF a <= b THEN a ELSE b

\* matchedRanges.set(j, v) on the map idx -> isMatch, modelled as a function.
RangeSet(mr, j, v) == [k \in (DOMAIN mr) \cup {j} |-> IF k = j THEN v ELSE mr[k]]

RECURSIVE MarkWindow(_, _, _, _)
\* for (let j = start; j < end; j++): a new index gets j === i, a known one is
\* upgraded to a match when j === i.  Indices are 0-based as in the code.
MarkWindow(mr, j, end, i) ==
  IF j >= end THEN mr
  ELSE MarkWindow(IF j \notin DOMAIN mr THEN RangeSet(mr, j, j = i)
                  ELSE IF j = i THEN RangeSet(mr, j, TRUE)
                  ELSE mr,
                  j + 1, end, i)

\* Math.max(0, i - before)
WindowStart(i, before) == Max(0, i - before)

\* A faulty end: the window stops one line short.
WindowEndShort(n, i, after) == Min(n, i + after)

\* Math.min(lines.length, i + after + 1), exclusive.
WindowEnd(n, i, after) == Min(n, i + after + 1)

RECURSIVE ScanLinesSkipFirst(_, _, _, _, _, _)
\* A faulty loop: the first line of a file is never tested.
ScanLinesSkipFirst(lines, pattern, before, after, i, mr) ==
  IF i >= Len(lines) THEN mr
  ELSE ScanLinesSkipFirst(lines, pattern, before, after, i + 1,
         IF i > 0 /\ RegexTest(pattern, lines[i + 1])
           THEN MarkWindow(mr, WindowStart(i, before), WindowEnd(Len(lines), i, after), i)
           ELSE mr)

RECURSIVE ScanLines(_, _, _, _, _, _)
\* for (let i = 0; i < lines.length; i++)
ScanLines(lines, pattern, before, after, i, mr) ==
  IF i >= Len(lines) THEN mr
  ELSE ScanLines(lines, pattern, before, after, i + 1,
         IF RegexTest(pattern, lines[i + 1])
           THEN MarkWindow(mr, WindowStart(i, before), WindowEnd(Len(lines), i, after), i)
           ELSE mr)

RECURSIVE SortedIndices(_)
\* [...matchedRanges.keys()].sort((a, b) => a - b)
SortedIndices(S) ==
  IF S = {} THEN <<>>
  ELSE LET lo == CHOOSE x \in S : \A y \in S : x <= y
       IN <<lo>> \o SortedIndices(S \ {lo})

\* A faulty test: the first emitted line of a file counts as a gap.
NeedsSeparatorAlways(idx, prevIdx) == idx > prevIdx + 1

\* idx > prevIdx + 1 && prevIdx >= 0
NeedsSeparator(idx, prevIdx) == idx > prevIdx + 1 /\ prevIdx >= 0

\* matchedRanges.get(idx) ? ":" : "-"
Marker(isMatch) == IF isMatch THEN <<":">> ELSE <<"-">>

RECURSIVE EmitLines(_, _, _, _, _, _)
\* for (const idx of sortedIndices), with prevIdx starting at -2.
EmitLines(filePath, lines, mr, sorted, prevIdx, results) ==
  IF sorted = <<>> THEN results
  ELSE LET idx == Head(sorted)
           sep == IF NeedsSeparator(idx, prevIdx) THEN <<Separator>> ELSE <<>>
           line == filePath \o <<":">> \o NumToString(idx + 1) \o Marker(mr[idx])
                     \o lines[idx + 1]
       IN EmitLines(filePath, lines, mr, Tail(sorted), idx, results \o sep \o <<line>>)

\* A faulty test: directory markers are scanned like any other entry.
InScopeWithMarkers(fs, filePath, target) ==
  /\ startsWith(filePath, target)
  /\ ~(MapHas(fs, target) /\ filePath # target)

\* A faulty test: an exact file target does not exclude the other entries.
InScopeAnyFile(fs, filePath, target) ==
  /\ ~endsWith(filePath, DirMarker)
  /\ startsWith(filePath, target)

\* Whether the loop over the files scans this entry (the three continue tests).
InScope(fs, filePath, target) ==
  /\ ~endsWith(filePath, DirMarker)
  /\ startsWith(filePath, target)
  /\ ~(MapHas(fs, target) /\ filePath # target)

RECURSIVE GrepFiles(_, _, _, _, _, _)
\* for (const [filePath, content] of this.files.entries()); fs is the whole
\* map, rest the entries still to visit.  The value is what the loop pushes
\* onto results from the first entry of rest on.
GrepFiles(fs, rest, target, pattern, before, after) ==
  IF rest = <<>> THEN <<>>
  ELSE LET filePath == Head(rest).path
           lines == split(Head(rest).content, "\n")
           mr == ScanLines(lines, pattern, before, after, 0, <<>>)
       IN (IF InScope(fs, filePath, target)
             THEN EmitLines(filePath, lines, mr, SortedIndices(DOMAIN mr), -2, <<>>)
             ELSE <<>>)
          \o GrepFiles(fs, Tail(rest), target, pattern, before, after)

\* The results array of grep before the cap is applied.
GrepResults(fs, c, pattern, path, before, after) ==
  LET target == IF path # Undefined /\ path # <<>> THEN resolve(path, c) ELSE c
  IN GrepFiles(fs, fs, target, pattern, before, after)

\* A faulty grep: the results are joined whatever their number.
grepNoCap(fs, c, pattern, path, before, after) ==
  LET results == GrepResults(fs, c, pattern, path, before, after) IN
  IF Len(results) = 0 THEN NoMatchesFound ELSE join(results, <<"\n">>)

\* VirtualFileSystem.grep; new RegExp(pattern) comes first and may throw.
grep(fs, c, pattern, path, before, after) ==
  LET results == GrepResults(fs, c, pattern, path, before, after) IN
  IF ~RegexValid(pattern) THEN ThrownSyntaxError
  ELSE IF Len(results) = 0 THEN NoMatchesFound
  ELSE IF Len(results) > GREP_CAP
    THEN FoundMsg \o NumToString(Len(results)) \o LinesShowingFirst
           \o NumToString(GREP_CAP) \o CloseParenColon
           \o join(SubSeq(results, 1, GREP_CAP), <<"\n">>)
  ELSE join(results, <<"\n">>)

\* loadFromDisk: every file of the walked tree is set under VIRTUAL_ROOT, in
\* readdir order.  tree is the sequence of [relativePath, content] the walk
\* visits; a missing base directory is the empty tree.
RECURSIVE loadFromDisk(_, _)
loadFromDisk(fs, tree) ==
  IF tree = <<>> THEN fs
  ELSE loadFromDisk(MapSet(fs, VIRTUAL_ROOT \o <<"/">> \o Head(tree).relativePath,
                           Head(tree).content),
                    Tail(tree))

----------------------------------------------------------------------------
(* Tools: createFileTools and createResearchTools                          *)

ErrorPrefix == <<"E", "r", "r", "o", "r", ":", " ">>
RequiresANumber ==
  <<" ", "r", "e", "q", "u", "i", "r", "e", "s", " ", "a", " ", "n", "u", "m", "b", "e", "r">>
ErrorUnknownFlag ==
  <<"E", "r", "r", "o", "r", ":", " ", "U", "n", "k", "n", "o", "w", "n", " ", "f", "l", "a",
    "g", " ">>
GrepUsage ==
  <<"U", "s", "a", "g", "e", ":", " ", "g", "r", "e", "p", " ", "[", "-", "A", " ", "N", "U",
    "M", "]", " ", "[", "-", "B", " ", "N", "U", "M", "]", " ", "P", "A", "T", "T", "E", "R",
    "N", " ", "[", "P", "A", "T", "H", "]">>
ErrorCommand ==
  <<"E", "r", "r", "o", "r", ":", " ", "C", "o", "m", "m", "a", "n", "d", " ", "'">>
NotImplemented ==
  <<"'", " ", "n", "o", "t", " ", "i", "m", "p", "l", "e", "m", "e", "n", "t", "e", "d", " ",
    "i", "n", " ", "v", "i", "r", "t", "u", "a", "l", " ", "s", "a", "n", "d", "b", "o", "x",
    ".">>
ErrorPaper == <<"E", "r", "r", "o", "r", ":", " ", "P", "a", "p", "e", "r", " ">>
NotFoundInArchive ==
  <<" ", "n", "o", "t", " ", "f", "o", "u", "n", "d", " ", "i", "n", " ", "a", "r", "c", "h",
    "i", "v", "e", ".">>
PapersDir ==
  <<"/", "h", "o", "m", "e", "/", "u", "s", "e", "r", "/", "p", "a", "p", "e", "r", "s", "/">>
DotMd == <<".", "m", "d">>
Downloaded == <<"D", "o", "w", "n", "l", "o", "a", "d", "e", "d", " ">>
ToMsg == <<" ", "t", "o", " ">>
OpenParen == <<" ", "(">>
CharsClose == <<" ", "c", "h", "a", "r", "s", ")">>

Digits == {"0", "1", "2", "3", "4", "5", "6", "7", "8", "9"}

DigitValue(ch) == CHOOSE d \in 0..9 : Digit(d) = ch

RECURSIVE ParseDigits(_, _, _)
\* The longest prefix of decimal digits; nan when there is none.
ParseDigits(s, acc, seen) ==
  IF s = <<>> \/ Head(s) \notin Digits THEN [nan |-> ~seen, val |-> acc]
  ELSE ParseDigits(Tail(s), 10 * acc + DigitValue(Head(s)), TRUE)

\* parseInt(s, 10): an optional sign, then the digit prefix.
ParseInt(s) ==
  IF s # <<>> /\ Head(s) = "-"
    THEN LET r == ParseDigits(Tail(s), 0, FALSE) IN [nan |-> r.nan, val |-> 0 - r.val]
  ELSE IF s # <<>> /\ Head(s) = "+" THEN ParseDigits(Tail(s), 0, FALSE)
  ELSE ParseDigits(s, 0, FALSE)

RECURSIVE ParseGrepFlags(_, _, _)
\* while (tokens.length && tokens[0].startsWith("-")): either an early return
\* (done, with the error string) or the remaining tokens and the two sizes.
ParseGrepFlags(tokens, before, after) ==
  IF tokens # <<>> /\ startsWith(tokens[1], <<"-">>)
    THEN LET flag == tokens[1]
             t1 == Tail(tokens)
         IN IF (flag = <<"-", "A">> \/ flag = <<"-", "B">>) /\ t1 # <<>>
              THEN LET val == ParseInt(t1[1]) IN
                   IF val.nan
                     THEN [done |-> TRUE, result |-> ErrorPrefix \o flag \o RequiresANumber]
                   ELSE IF flag = <<"-", "A">>
                     THEN ParseGrepFlags(Tail(t1), before, val.val)
                   ELSE ParseGrepFlags(Tail(t1), val.val, after)
              ELSE [done |-> TRUE,
                    result |-> ErrorUnknownFlag \o flag \o <<".", " ">> \o GrepUsage]
    ELSE [done |-> FALSE, tokens |-> tokens, before |-> before, after |-> after]

\* A faulty default branch: an unknown verb is answered with an empty listing.
UnknownCommandAsEmpty(fs, c, cmd) == [files |-> fs, cwd |-> c, result |-> EmptyDirectory]

\* The default branch of runShell's switch.
UnknownCommand(fs, c, cmd) ==
  [files |-> fs, cwd |-> c, result |-> ErrorCommand \o cmd \o NotImplemented]

\* A faulty dispatcher: ls also moves to the directory it lists.
runShellListMoves(fs, c, command) ==
  LET parts == split(command, " ")
      cmd == parts[1]
      arg == join(Tail(parts), <<" ">>)
  IN CASE cmd = <<"l", "s">> ->
            [files |-> fs, cwd |-> resolve(IF arg = <<>> THEN <<".">> ELSE arg, c),
             result |-> listDir(fs, c, IF arg = <<>> THEN <<".">> ELSE arg)]
       [] cmd = <<"p", "w", "d">> -> [files |-> fs, cwd |-> c, result |-> c]
       [] cmd = <<"c", "d">> ->
            [files |-> fs, cwd |-> cd(c, arg).cwd, result |-> cd(c, arg).result]
       [] cmd = <<"r", "m">> ->
            [files |-> delete(fs, c, arg).files, cwd |-> c,
             result |-> delete(fs, c, arg).result]
       [] cmd = <<"g", "r", "e", "p">> ->
            LET parsed == ParseGrepFlags(split(arg, " "), 0, 0) IN
            [files |-> fs, cwd |-> c,
             result |->
               IF parsed.done THEN parsed.result
               ELSE IF parsed.tokens = <<>> THEN GrepUsage
               ELSE grep(fs, c, parsed.tokens[1],
                         IF Len(parsed.tokens) >= 2 THEN parsed.tokens[2] ELSE Undefined,
                         parsed.before, parsed.after)]
       [] OTHER -> UnknownCommand(fs, c, cmd)

\* runShell.execute: the new files, the new cwd and the returned string.
runShell(fs, c, command) ==
  LET parts == split(command, " ")
      cmd == parts[1]
      arg == join(Tail(parts), <<" ">>)
  IN CASE cmd = <<"l", "s">> ->
            [files |-> fs, cwd |-> c,
             result |-> listDir(fs, c, IF arg = <<>> THEN <<".">> ELSE arg)]
       [] cmd = <<"p", "w", "d">> -> [files |-> fs, cwd |-> c, result |-> c]
       [] cmd = <<"c", "d">> ->
            [files |-> fs, cwd |-> cd(c, arg).cwd, result |-> cd(c, arg).result]
       [] cmd = <<"r", "m">> ->
            [files |-> delete(fs, c, arg).files, cwd |-> c,
             result |-> delete(fs, c, arg).result]
       [] cmd = <<"g", "r", "e", "p">> ->
            LET parsed == ParseGrepFlags(split(arg, " "), 0, 0) IN
            [files |-> fs, cwd |-> c,
             result |->
               IF parsed.done THEN parsed.result
               ELSE IF parsed.tokens = <<>> THEN GrepUsage
               ELSE grep(fs, c, parsed.tokens[1],
                         IF Len(parsed.tokens) >= 2 THEN parsed.tokens[2] ELSE Undefined,
                         parsed.before, parsed.after)]
       [] OTHER -> UnknownCommand(fs, c, cmd)


\* What fetchPaperMarkdown resolved to when the backend has no such paper.
Null == <<"null">>

\* A backend call whose promise rejects, and what a tool's execute evaluates
\* to when the awaited rejection leaves it.
Rejected == <<"reject">>
ThrownBackendError == <<"throw Error">>

NoPapersFound ==
  <<"N", "o", " ", "p", "a", "p", "e", "r", "s", " ", "f", "o", "u", "n", "d", " ", "m", "a", "t",
     "c", "h", "i", "n", "g", " ", "c", "r", "i", "t", "e", "r", "i", "a", ".">>
NoSummariesFound ==
  <<"N", "o", " ", "s", "u", "m", "m", "a", "r", "i", "e", "s", " ", "f", "o", "u", "n", "d", " ",
     "f", "o", "r", " ", "p", "r", "o", "v", "i", "d", "e", "d", " ", "c", "o", "d", "e", "s", ".">>
SimOpen == <<" ", "(", "s", "i", "m", ":", " ">>

\* A value interpolated into a template literal: null reads "null".
Template(v) == IF v = Null THEN <<"n", "u", "l", "l">> ELSE v

\* The text of one paper in searchArxiv's result.
FormatPaper(p) ==
  <<"[">> \o p.arxiv_code \o <<"]", " ">> \o p.title \o <<"\n", " ", " ">> \o p.authors
    \o <<"\n", " ", " ">> \o Template(p.published)
    \o (IF p.similarity # Undefined THEN SimOpen \o p.similarity \o <<")">> ELSE <<>>)

\* searchArxiv.execute: backend is what searchPapers settled to, rejected or
\* the papers found.
searchArxiv(backend) ==
  IF backend.rejected THEN ThrownBackendError
  ELSE IF Len(backend.papers) = 0 THEN NoPapersFound
  ELSE join([i \in 1..Len(backend.papers) |-> FormatPaper(backend.papers[i])], <<"\n", "\n">>)

\* getPaperSummaries.execute: backend is what getSummaries settled to,
\* rejected or the entries of the summaries object.
getPaperSummaries(backend) ==
  IF backend.rejected THEN ThrownBackendError
  ELSE IF Len(backend.summaries) = 0 THEN NoSummariesFound
  ELSE join([i \in 1..Len(backend.summaries) |->
               <<"#", "#", " ">> \o backend.summaries[i].code \o <<"\n">>
                 \o backend.summaries[i].summary],
            <<"\n", "\n", "-", "-", "-", "\n", "\n">>)

\* A faulty fetchPaper: a missing paper is stored as an empty file.
fetchPaperStoresMissing(fs, c, arxiv_code, content) ==
  IF content = Rejected THEN [files |-> fs, result |-> ThrownBackendError]
  ELSE LET path == PapersDir \o arxiv_code \o DotMd
           text == IF content = Null THEN <<>> ELSE content IN
       [files |-> write(fs, c, path, text).files,
        result |-> IF content = Null \/ content = <<>>
                     THEN ErrorPaper \o arxiv_code \o NotFoundInArchive
                     ELSE Downloaded \o arxiv_code \o ToMsg \o path \o OpenParen
                            \o NumToString(Len(content)) \o CharsClose]

\* fetchPaper.execute once fetchPaperMarkdown has settled: rejected, null
\* (the response was not ok) or the content.
fetchPaper(fs, c, arxiv_code, content) ==
  IF content = Rejected THEN [files |-> fs, result |-> ThrownBackendError]
  ELSE IF content = Null \/ content = <<>>
    THEN [files |-> fs, result |-> ErrorPaper \o arxiv_code \o NotFoundInArchive]
  ELSE LET path == PapersDir \o arxiv_code \o DotMd IN
       [files |-> write(fs, c, path, content).files,
        result |-> Downloaded \o arxiv_code \o ToMsg \o path \o OpenParen
                     \o NumToString(Len(content)) \o CharsClose]

----------------------------------------------------------------------------
(* The file system under the operations a run can perform on it.           *)

MaxFiles == 2

\* Paths given to write, read and delete: three spellings of one file, and
\* the root.
Paths ==
  { <<"a">>, <<".", "/", "a">>, <<"/", "h", "o", "m", "e", "/", "u", "s", "e", "r", "/", "a">>,
    <<"/">> }

\* Paths given to cd: the parent, the empty path and the initial directory.
Dirs == { <<".", ".">>, <<>>, VIRTUAL_ROOT }

\* File contents: empty and two lines.
Contents == { <<>>, <<"a", "\n", "b">> }

Commands ==
  { <<"l", "s">>, <<"l", "s", " ", "/">>, <<"p", "w", "d">>, <<"c", "d", " ", ".", ".">>,
    <<"c", "d">>, <<"r", "m", " ", "a">>, <<"g", "r", "e", "p", " ", "a">>,
    <<"g", "r", "e", "p", " ", "-", "A", " ", "1", " ", "b", " ", "a">>,
    <<"w", "g", "e", "t", " ", "x">> }

ArxivCodes == { <<"p", "1">> }

\* Trees loadFromDisk can find under its base path: none (the directory is
\* missing), or one file in a subdirectory.
DiskTrees ==
  { <<>>,
    << [relativePath |-> <<"d", "/", "a">>, content |-> <<"a", "\n", "b">>] >> }

Init ==
  /\ files = <<>>
  /\ cwd = VIRTUAL_ROOT
  /\ last = [op |-> "new"]

Write ==
  \E path \in Paths, content \in Contents :
    LET r == write(files, cwd, path, content) IN
    /\ Len(r.files) <= MaxFiles
    /\ files' = r.files
    /\ last' = [op |-> "write", path |-> path, content |-> content, result |-> r.result]
    /\ UNCHANGED cwd

Read ==
  \E path \in Paths :
    /\ last' = [op |-> "read", path |-> path, result |-> read(files, cwd, path)]
    /\ UNCHANGED <<files, cwd>>

Delete ==
  \E path \in Paths :
    LET r == delete(files, cwd, path) IN
    /\ files' = r.files
    /\ last' = [op |-> "delete", path |-> path, result |-> r.result]
    /\ UNCHANGED cwd

Cd ==
  \E path \in Dirs :
    LET r == cd(cwd, path) IN
    /\ cwd' = r.cwd
    /\ last' = [op |-> "cd", path |-> path, result |-> r.result]
    /\ UNCHANGED files

RunShell ==
  \E command \in Commands :
    LET r == runShell(files, cwd, command) IN
    /\ Len(r.files) <= MaxFiles
    /\ files' = r.files
    /\ cwd' = r.cwd
    /\ last' = [op |-> "runShell", command |-> command, result |-> r.result]

FetchPaper ==
  \E code \in ArxivCodes, content \in {Null, <<"a", "\n", "b">>} :
    LET r == fetchPaper(files, cwd, code, content) IN
    /\ Len(r.files) <= MaxFiles
    /\ files' = r.files
    /\ last' = [op |-> "fetchPaper", code |-> code, content |-> content, result |-> r.result]
    /\ UNCHANGED cwd

LoadFromDisk ==
  \E tree \in DiskTrees :
    LET fs == loadFromDisk(files, tree) IN
    /\ last.op = "new"
    /\ Len(fs) <= MaxFiles
    /\ files' = fs
    /\ last' = [op |-> "loadFromDisk", tree |-> tree]
    /\ UNCHANGED cwd

Next == Write \/ Read \/ Delete \/ Cd \/ RunShell \/ FetchPaper \/ LoadFromDisk

Spec == Init /\ [][Next]_vars

----------------------------------------------------------------------------
(* Path resolution on its own: the inputs are drawn in Init.               *)

MaxPathLen == 5

PathChars == {"/", ".", "a"}

StringsUpTo(chars, n) == UNION {[1..k -> chars] : k \in 0..n}

\* Working directories cd can produce from the initial one.
ResolveCwds ==
  { <<"/">>, <<"/", "a">>, <<"/", "a", "/", "b">>, VIRTUAL_ROOT }

InitResolve ==
  /\ files = <<>>
  /\ cwd \in ResolveCwds
  /\ last \in [op : {"input"}, path : StringsUpTo(PathChars, MaxPathLen)]

Resolve ==
  /\ last.op = "input"
  /\ last' = [op |-> "resolve", path |-> last.path, result |-> resolve(last.path, cwd)]
  /\ UNCHANGED <<files, cwd>>

SpecResolve == InitResolve /\ [][Resolve]_vars

----------------------------------------------------------------------------
(* Directory listing on its own: the file set is drawn in Init.            *)

MaxListFiles == 3

\* Keys around /home/user: a direct child, a nested file, a file and a
\* directory whose names begin with "user", a file named as the directory
\* itself, and a file at the root.
ListKeys ==
  { VIRTUAL_ROOT \o <<"/", "t">>,
    VIRTUAL_ROOT \o <<"/", "s", "/", "n">>,
    VIRTUAL_ROOT \o <<"n">>,
    VIRTUAL_ROOT \o <<"2", "/", "b">>,
    VIRTUAL_ROOT,
    <<"/", "t">> }

ListDirs ==
  { VIRTUAL_ROOT, <<".">>, <<"/">>, <<"/", "h", "o", "m", "e">>, <<"s">>,
    VIRTUAL_ROOT \o <<"/">> }

\* Sequences of at most n entries with distinct keys.
FileSeqs(keys, contents, n) ==
  { fs \in UNION { [1..k -> [path : keys, content : contents]] : k \in 0..n } :
      \A i, j \in 1..Len(fs) : i # j => fs[i].path # fs[j].path }

InitList ==
  /\ files \in FileSeqs(ListKeys, { <<"x">> }, MaxListFiles)
  /\ cwd = VIRTUAL_ROOT
  /\ last = [op |-> "new"]

ListDir ==
  \E path \in ListDirs :
    /\ last' = [op |-> "listDir", path |-> path, result |-> listDir(files, cwd, path)]
    /\ UNCHANGED <<files, cwd>>

SpecList == InitList /\ [][ListDir]_vars

----------------------------------------------------------------------------
(* grep on its own: context windows in one file, then scoping over files.  *)

MaxLines == 7
MaxContext == 2

\* A line that does not match the pattern "m" and one that does.
GrepLines == { <<"a">>, <<"m", "1">> }

GrepPattern == <<"m">>

\* Contents of one to n lines, and the empty content.
ContentsUpTo(n) ==
  { join(ls, <<"\n">>) : ls \in UNION { [1..k -> GrepLines] : k \in 0..n } }

FileF == VIRTUAL_ROOT \o <<"/", "f">>
FileG == VIRTUAL_ROOT \o <<"/", "g">>

\* File f alone, or followed by a second file g that matches.
InitGrepContext ==
  /\ \E content \in ContentsUpTo(MaxLines) :
       files \in { << [path |-> FileF, content |-> content] >>,
                   << [path |-> FileF, content |-> content],
                      [path |-> FileG, content |-> <<"m", "1">>] >> }
  /\ cwd = VIRTUAL_ROOT
  /\ last = [op |-> "new"]

GrepContext ==
  \E before \in 0..MaxContext, after \in 0..MaxContext :
    /\ last' = [op |-> "grep", pattern |-> GrepPattern, path |-> Undefined,
                before |-> before, after |-> after,
                result |-> grep(files, cwd, GrepPattern, Undefined, before, after)]
    /\ UNCHANGED <<files, cwd>>

SpecGrepContext == InitGrepContext /\ [][GrepContext]_vars

MaxScopeFiles == 3

\* Keys around /home/user/f: the file, a file whose key extends it, a file in
\* a subdirectory, and a file in a sibling directory whose name extends
\* "user".
ScopeKeys ==
  { FileF,
    FileF \o <<"x">>,
    VIRTUAL_ROOT \o <<"/", "s", "/", "n">>,
    VIRTUAL_ROOT \o <<"2", "/", "b">> }

ScopeContents == { <<"m", "1">>, <<"a", "\n", "m", "1">> }

ScopePaths ==
  { Undefined, FileF, <<"f">>, VIRTUAL_ROOT, <<"s">>, <<"/">>, VIRTUAL_ROOT \o <<"2">> }

InitGrepScope ==
  /\ files \in FileSeqs(ScopeKeys, ScopeContents, MaxScopeFiles)
  /\ cwd = VIRTUAL_ROOT
  /\ last = [op |-> "new"]

GrepScope ==
  \E path \in ScopePaths, context \in 0..1 :
    /\ last' = [op |-> "grep", pattern |-> GrepPattern, path |-> path,
                before |-> context, after |-> 0,
                result |-> grep(files, cwd, GrepPattern, path, context, 0)]
    /\ UNCHANGED <<files, cwd>>

SpecGrepScope == InitGrepScope /\ [][GrepScope]_vars

\* grep around the output cap: many five-line files, then a shorter one.
MaxCapFiles == 21

\* n lines that all match, or n lines that match and miss in turn.
Repeated(n, alternate) ==
  join([i \in 1..n |-> IF alternate /\ i % 2 = 0 THEN <<"a">> ELSE <<"m">>], <<"\n">>)

CapFile(i) == FileF \o NumToString(i)

InitGrepCap ==
  /\ \E n \in (MaxCapFiles - 2)..MaxCapFiles, alternate \in BOOLEAN, k \in 0..3 :
       files = [i \in 1..n |-> [path |-> CapFile(i), content |-> Repeated(5, alternate)]]
                 \o (IF k = 0 THEN <<>>
                     ELSE << [path |-> FileG, content |-> Repeated(k, FALSE)] >>)
  /\ cwd = VIRTUAL_ROOT
  /\ last = [op |-> "new"]

GrepCap ==
  \E path \in {Undefined, <<"f", "2">>}, before \in 0..1, after \in 0..1 :
    /\ last' = [op |-> "grep", pattern |-> GrepPattern, path |-> path,
                before |-> before, after |-> after,
                result |-> grep(files, cwd, GrepPattern, path, before, after)]
    /\ UNCHANGED <<files, cwd>>

SpecGrepCap == InitGrepCap /\ [][GrepCap]_vars

\* grep for matches: a file, a directory marker, a file next to the marker
\* and a file in a sibling directory, searched with literal, wildcard, empty
\* and absent patterns.
MaxMatchFiles == 3

NotesMd == VIRTUAL_ROOT \o <<"/", "n", "o", "t", "e", "s", ".", "m", "d">>
SubdirMarker == VIRTUAL_ROOT \o <<"/", "d">> \o DirMarker

MatchKeys ==
  { NotesMd, SubdirMarker, VIRTUAL_ROOT \o <<"/", "d", "/", "n">>,
    VIRTUAL_ROOT \o <<"2", "/", "b">> }

MatchContents == { <<"h", "i">>, <<"a", "\n", "o", "h", "i">>, <<>> }

MatchPatterns == { <<"h", "i">>, <<"h", ".">>, <<>>, <<"z">> }

MatchPaths ==
  { Undefined, <<"d">>, <<"n", "o", "t", "e", "s", ".", "m", "d">>,
    <<"d", "/", ".", "d", "i", "r">>, <<"/">> }

InitGrepMatch ==
  /\ files \in FileSeqs(MatchKeys, MatchContents, MaxMatchFiles)
  /\ cwd = VIRTUAL_ROOT
  /\ last = [op |-> "new"]

\* One search per file set: grep changes neither files nor cwd.
GrepMatch ==
  \E pattern \in MatchPatterns, path \in MatchPaths, before \in 0..1, after \in 0..1 :
    /\ last.op = "new"
    /\ last' = [op |-> "grep", pattern |-> pattern, path |-> path,
                before |-> before, after |-> after,
                result |-> grep(files, cwd, pattern, path, before, after)]
    /\ UNCHANGED <<files, cwd>>

SpecGrepMatch == InitGrepMatch /\ [][GrepMatch]_vars

----------------------------------------------------------------------------
(* Path predicates used by the properties.                                 *)

Segments(p) == split(p, "/")

NonEmptySegments(p) == SelectSeq(Segments(p), LAMBDA seg : seg # <<>>)

HasSegment(p, seg) == \E i \in 1..Len(Segments(p)) : Segments(p)[i] = seg

\* Starts with "/", no "..", no "." and no empty segment.
Contained(p) ==
  /\ startsWith(p, <<"/">>)
  /\ ~HasSegment(p, <<".", ".">>)
  /\ ~HasSegment(p, <<".">>)
  /\ ~includes(p, <<"/", "/">>)

\* A path whose segments are all "..", and that has at least one.
OnlyDotDot(p) ==
  /\ NonEmptySegments(p) # <<>>
  /\ \A i \in 1..Len(NonEmptySegments(p)) : NonEmptySegments(p)[i] = <<".", ".">>

Depth(p) == Len(NonEmptySegments(p))

\* The ancestor of canonical path c that is k levels up, "/" when k >= Depth(c).
Ancestor(c, k) ==
  <<"/">> \o join(SubSeq(NonEmptySegments(c), 1, Max(0, Depth(c) - k)), <<"/">>)

\* C1 as stated: the result of resolve is contained (starts with "/", no "..",
\* "." or empty segment), and every path made only of ".." segments resolves
\* to "/".
C1_AsStated ==
  last.op = "resolve" =>
    /\ Contained(last.result)
    /\ OnlyDotDot(last.path) => last.result = <<"/">>

\* C1 amended: the result of resolve is always contained; a path made only of
\* ".." segments resolves to "/" when it is absolute or has at least as many
\* ".." as cwd has segments, and otherwise to the ancestor of cwd that many
\* levels up.
C1_Containment ==
  last.op = "resolve" =>
    /\ Contained(last.result)
    /\ OnlyDotDot(last.path) =>
         last.result = IF startsWith(last.path, <<"/">>) THEN <<"/">>
                       ELSE Ancestor(cwd, Depth(last.path))

\* A relative path of more ".." segments than cwd is deep was resolved: the
\* extra ".." met an empty parts list.
C1_Witness ==
  /\ last.op = "resolve"
  /\ OnlyDotDot(last.path)
  /\ ~startsWith(last.path, <<"/">>)
  /\ cwd # <<"/">>
  /\ Depth(last.path) > Depth(cwd)
  /\ last.result = <<"/">>

----------------------------------------------------------------------------
(* Properties of the file system under Spec.                               *)

ErrorWord == <<"E", "r", "r", "o", "r">>
DoesNotExistWords == <<"d", "o", "e", "s", " ", "n", "o", "t", " ", "e", "x", "i", "s", "t">>

\* Canonical as the data model words it for keys: contained and no trailing "/".
Canonical(p) == Contained(p) /\ ~endsWith(p, <<"/">>)

\* The root is the one canonical path that ends in "/".
CanonicalOrRoot(p) == p = <<"/">> \/ Canonical(p)

\* C2 as stated: every key of files starts with "/", has no "." or ".."
\* segment, no "//" and no trailing "/", and cwd is a canonical absolute path
\* (the root included).
C2_AsStated ==
  /\ \A k \in MapKeys(files) : Canonical(k)
  /\ CanonicalOrRoot(cwd)

\* C2 amended: every key of files is the root "/" or a canonical absolute path
\* without trailing "/", and so is cwd.
C2_Canonical ==
  /\ \A k \in MapKeys(files) : CanonicalOrRoot(k)
  /\ CanonicalOrRoot(cwd)

\* A file was written under a "./" spelling from a working directory other
\* than the initial one, next to another entry.
C2_Witness ==
  /\ last.op = "write"
  /\ last.path = <<".", "/", "a">>
  /\ cwd # VIRTUAL_ROOT
  /\ Len(files) >= 2
  /\ MapHas(files, resolve(last.path, cwd))

\* The keys an operation is aimed at, from the working directory c it ran in.
Targets(l, c) ==
  CASE l.op \in {"write", "delete"} -> {resolve(l.path, c)}
    [] l.op = "fetchPaper" -> {PapersDir \o l.code \o DotMd}
    [] l.op = "loadFromDisk" ->
         {VIRTUAL_ROOT \o <<"/">> \o l.tree[i].relativePath : i \in 1..Len(l.tree)}
    [] l.op = "runShell" ->
         IF startsWith(l.command, <<"r", "m", " ">>)
           THEN {resolve(slice(l.command, 3), c)} ELSE {}
    [] OTHER -> {}

\* Right after write(p, c), every spelling q of the same key reads back c.
ReadsBackWritten ==
  last.op = "write" =>
    \A q \in Paths :
      resolve(q, cwd) = resolve(last.path, cwd) => read(files, cwd, q) = last.content

\* A step keeps the content of every key it is not aimed at.
KeepsOtherKeys ==
  \A k \in MapKeys(files) :
    k \notin Targets(last', cwd) => MapHas(files', k) /\ MapGet(files', k) = MapGet(files, k)

\* A read returns the content of the key its path resolves to, when present.
ReadReturnsStored ==
  (last'.op = "read" /\ MapHas(files, resolve(last'.path, cwd))) =>
    last'.result = MapGet(files, resolve(last'.path, cwd))

\* A write to a key already present adds no key.
OverwriteAddsNoKey ==
  (last'.op = "write" /\ MapHas(files, resolve(last'.path, cwd))) =>
    /\ Len(files') = Len(files)
    /\ MapKeys(files') = MapKeys(files)

\* C3: after write(p, c) every path that resolves to the same key reads back
\* exactly c (empty and multi-line content included) until a later write or
\* delete is aimed at that key, and a second write to the key replaces the
\* content without adding a key.
C3_RoundTrip ==
  /\ []ReadsBackWritten
  /\ [][KeepsOtherKeys /\ ReadReturnsStored /\ OverwriteAddsNoKey]_vars

\* Multi-line content written as "./a" is read back under the absolute
\* spelling, and it replaced an earlier entry's position (the only key).
C3_Witness ==
  /\ last.op = "write"
  /\ last.path = <<".", "/", "a">>
  /\ last.content = <<"a", "\n", "b">>
  /\ cwd = VIRTUAL_ROOT
  /\ read(files, cwd, VIRTUAL_ROOT \o <<"/", "a">>) = last.content
  /\ Len(files) = 1

DeleteSucceeded(l) == l.op = "delete" /\ startsWith(l.result, DeletedMsg)

\* A read of p directly after a successful delete(p) is an error naming the
\* resolved path.
ReadAfterDeleteFails ==
  (DeleteSucceeded(last) /\ last'.op = "read" /\ last'.path = last.path) =>
    /\ includes(last'.result, ErrorWord)
    /\ includes(last'.result, DoesNotExistWords)
    /\ includes(last'.result, resolve(last.path, cwd))

\* A delete of an absent key is an error naming the resolved path, and
\* changes nothing.
DeleteMissingIsError ==
  (last'.op = "delete" /\ ~MapHas(files, resolve(last'.path, cwd))) =>
    /\ includes(last'.result, ErrorWord)
    /\ includes(last'.result, resolve(last'.path, cwd))
    /\ files' = files
    /\ cwd' = cwd

\* A delete of a present key reports success and removes it.
DeletePresentSucceeds ==
  (last'.op = "delete" /\ MapHas(files, resolve(last'.path, cwd))) =>
    /\ DeleteSucceeded(last')
    /\ ~MapHas(files', resolve(last'.path, cwd))

\* C4: after a successful delete(p), read(p) returns an error containing
\* "Error", "does not exist" and the resolved path; a delete of an absent key
\* returns an error naming the resolved path and leaves files and cwd as
\* they were.
C4_DeleteThenRead ==
  [][ReadAfterDeleteFails /\ DeleteMissingIsError /\ DeletePresentSucceeds]_vars

\* A relative path was deleted successfully while another entry stays.
C4_Witness ==
  /\ DeleteSucceeded(last)
  /\ last.path = <<"a">>
  /\ Len(files) >= 1
  /\ includes(read(files, cwd, last.path), DoesNotExistWords)

----------------------------------------------------------------------------
(* Properties of listDir under SpecList.                                   *)

\* The names a listing returned.
ListedNames(result) == IF result = EmptyDirectory THEN <<>> ELSE split(result, "\n")

\* d + "/", or "/" for the root.
DirPrefix(d) == IF d = <<"/">> THEN d ELSE d \o <<"/">>

\* k lies inside directory d, at any depth.
Inside(k, d) == startsWith(k, DirPrefix(d)) /\ Len(k) > Len(DirPrefix(d))

\* k lies two or more levels below d.
NestedBelow(k, d) == Inside(k, d) /\ includes(slice(k, Len(DirPrefix(d))), <<"/">>)

\* k is a direct child of d.
DirectChild(k, d) == Inside(k, d) /\ ~NestedBelow(k, d)

\* C5: no name returned by listDir(d) contains "/", and the files two or
\* more levels below d contribute no entry: there are at most as many names
\* as there are keys not nested below d.
C5_NoNestedEntries ==
  last.op = "listDir" =>
    LET d == resolve(last.path, cwd)
        names == ListedNames(last.result)
    IN /\ \A i \in 1..Len(names) : ~includes(names[i], <<"/">>)
       /\ Len(names) <= Cardinality({k \in MapKeys(files) : ~NestedBelow(k, d)})

\* /home/user was listed with a direct child and a nested file present, and
\* the listing is exactly the child.
C5_Witness ==
  /\ last.op = "listDir"
  /\ last.path = VIRTUAL_ROOT
  /\ MapKeys(files) = { VIRTUAL_ROOT \o <<"/", "t">>, VIRTUAL_ROOT \o <<"/", "s", "/", "n">> }
  /\ last.result = <<"t">>

\* C6 as stated: every name n returned by listDir(d) is the name of a key
\* resolve(d) + "/" + n of files, and "(empty directory)" is returned exactly
\* when d has no direct child file.
C6_AsStated ==
  last.op = "listDir" =>
    LET d == resolve(last.path, cwd)
        names == ListedNames(last.result)
    IN /\ \A i \in 1..Len(names) : MapHas(files, DirPrefix(d) \o names[i])
       /\ last.result = EmptyDirectory <=> ~\E k \in MapKeys(files) : DirectChild(k, d)

----------------------------------------------------------------------------
(* Properties of grep under SpecGrepContext and SpecGrepScope.             *)

\* The lines of grep's output, none when it reports no match.
Emitted(result) == IF result = NoMatchesFound THEN <<>> ELSE split(result, "\n")

\* The 0-based indices of the lines that match.
MatchingIndices(lines, pattern) ==
  {i \in 0..(Len(lines) - 1) : RegexTest(pattern, lines[i + 1])}

\* The union of the inclusive windows of the matching lines.
IncludedIndices(lines, pattern, before, after) ==
  {j \in 0..(Len(lines) - 1) :
     \E i \in MatchingIndices(lines, pattern) :
       Max(0, i - before) <= j /\ j <= Min(Len(lines) - 1, i + after)}

RECURSIVE ExpectedFrom(_, _, _, _, _, _)
\* The lines expected for one file from index j on, in ascending order.
ExpectedFrom(path, lines, pattern, before, after, j) ==
  IF j >= Len(lines) THEN <<>>
  ELSE (IF j \in IncludedIndices(lines, pattern, before, after)
          THEN << path \o <<":">> \o NumToString(j + 1)
                    \o (IF j \in MatchingIndices(lines, pattern) THEN <<":">> ELSE <<"-">>)
                    \o lines[j + 1] >>
          ELSE <<>>)
       \o ExpectedFrom(path, lines, pattern, before, after, j + 1)

RECURSIVE ExpectedAll(_, _, _, _)
\* The expected lines of every entry of fs, in order.
ExpectedAll(fs, pattern, before, after) ==
  IF fs = <<>> THEN <<>>
  ELSE ExpectedFrom(Head(fs).path, split(Head(fs).content, "\n"), pattern, before, after, 0)
         \o ExpectedAll(Tail(fs), pattern, before, after)

\* C7: for each scanned file the lines grep emits are exactly the indices in
\* the union of the windows [max(0, i-before), min(lastIndex, i+after)] of the
\* matching lines i, each once, ascending, with its 1-based number, marked ":"
\* exactly when the line itself matches and "-" otherwise.
C7_EmittedLines ==
  last.op = "grep" =>
    SelectSeq(Emitted(last.result), LAMBDA l : l # Separator)
      = ExpectedAll(files, last.pattern, last.before, last.after)

\* Two adjacent matching lines with one line of context on each side: each
\* match lies in the other's window and keeps its ":".
C7_Witness ==
  /\ last.op = "grep"
  /\ last.before = 1
  /\ last.after = 1
  /\ files = << [path |-> FileF,
                 content |-> <<"a", "\n", "m", "1", "\n", "m", "1", "\n", "a">>] >>
  /\ Emitted(last.result)
       = << FileF \o <<":", "1", "-", "a">>,
            FileF \o <<":", "2", ":", "m", "1">>,
            FileF \o <<":", "3", ":", "m", "1">>,
            FileF \o <<":", "4", "-", "a">> >>

\* The key an output line refers to, and its line number.
LineKey(l) == CHOOSE k \in MapKeys(files) : startsWith(l, k \o <<":">>)

LineNumber(l) == ParseInt(slice(l, Len(LineKey(l)) + 1)).val

\* Two output lines of one file whose numbers differ by two or more.
Gap(l1, l2) == LineKey(l1) = LineKey(l2) /\ LineNumber(l2) - LineNumber(l1) >= 2

\* The lines a, match1, b, c, d, match2, e of the separator example.
ExampleContent ==
  <<"a", "\n", "m", "1", "\n", "a", "\n", "a", "\n", "a", "\n", "m", "1", "\n", "a">>

ExampleOutput ==
  << FileF \o <<":", "2", ":", "m", "1">>,
     FileF \o <<":", "3", "-", "a">>,
     Separator,
     FileF \o <<":", "6", ":", "m", "1">>,
     FileF \o <<":", "7", "-", "a">> >>

IsExample ==
  /\ last.op = "grep"
  /\ last.before = 0
  /\ last.after = 1
  /\ files = << [path |-> FileF, content |-> ExampleContent] >>

\* C8: a "--" line stands between two consecutively emitted lines exactly
\* when they belong to one file and their indices differ by two or more;
\* none stands first, last, between adjacent indices or between two files.
\* The example a, match1, b, c, d, match2, e with before 0 and after 1 has
\* exactly one "--", between line 3 and line 6.
C8_Separators ==
  last.op = "grep" =>
    LET out == Emitted(last.result) IN
    /\ \A i \in 1..Len(out) :
         IF out[i] = Separator
           THEN /\ 1 < i /\ i < Len(out)
                /\ out[i - 1] # Separator /\ out[i + 1] # Separator
                /\ Gap(out[i - 1], out[i + 1])
           ELSE (i < Len(out) /\ out[i + 1] # Separator) => ~Gap(out[i], out[i + 1])
    /\ IsExample => out = ExampleOutput

\* The example was run and its output holds one separator.
C8_Witness ==
  /\ IsExample
  /\ Cardinality({i \in 1..Len(Emitted(last.result)) :
                    Emitted(last.result)[i] = Separator}) = 1

\* C9: when the path resolves to a key of files, every line of the output
\* refers to that key.
C9_SingleFile ==
  (last.op = "grep" /\ last.path # Undefined /\ MapHas(files, resolve(last.path, cwd))) =>
    \A i \in 1..Len(Emitted(last.result)) :
      \/ Emitted(last.result)[i] = Separator
      \/ startsWith(Emitted(last.result)[i], resolve(last.path, cwd) \o <<":">>)

\* f was searched by its relative name while a matching file whose key
\* extends f's key is present, and lines were reported.
C9_Witness ==
  /\ last.op = "grep"
  /\ last.path = <<"f">>
  /\ MapHas(files, FileF)
  /\ MapHas(files, FileF \o <<"x">>)
  /\ last.result # NoMatchesFound

\* C10 as stated: when the path (or cwd when omitted) resolves to a directory
\* d (some file lies inside it), every line of the output refers to a key
\* inside d (d + "/" + something).
C10_AsStated ==
  last.op = "grep" =>
    LET d == IF last.path = Undefined THEN cwd ELSE resolve(last.path, cwd) IN
    (\E k \in MapKeys(files) : Inside(k, d)) =>
      \A i \in 1..Len(Emitted(last.result)) :
        \/ Emitted(last.result)[i] = Separator
        \/ \E k \in MapKeys(files) :
             Inside(k, d) /\ startsWith(Emitted(last.result)[i], k \o <<":">>)

----------------------------------------------------------------------------
(* Properties of grep's output cap under SpecGrepCap.                      *)

\* The lines grep emitted before the cap, for the call recorded in last.
EmittedBeforeCap ==
  GrepResults(files, cwd, last.pattern, last.path, last.before, last.after)

\* C11: when at most 100 lines (matches, context and "--") are emitted the
\* result is those lines joined by newlines; when more are emitted the result
\* is one header line that states the total, followed by exactly the first
\* 100 emitted lines in order.  The result never has more than 101 lines.
C11_OutputCap ==
  last.op = "grep" =>
    LET emitted == EmittedBeforeCap
        out == split(last.result, "\n")
    IN /\ Len(out) <= GREP_CAP + 1
       /\ (0 < Len(emitted) /\ Len(emitted) <= GREP_CAP) => out = emitted
       /\ Len(emitted) > GREP_CAP =>
            /\ Len(out) = GREP_CAP + 1
            /\ includes(out[1], NumToString(Len(emitted)))
            /\ includes(out[1], NumToString(GREP_CAP))
            /\ ~startsWith(out[1], <<"/">>)
            /\ Tail(out) = SubSeq(emitted, 1, GREP_CAP)

\* 101 lines were emitted, separators of alternating files among them, and
\* the output is the header and the first 100 of them.
C11_Witness ==
  /\ last.op = "grep"
  /\ Len(EmittedBeforeCap) = GREP_CAP + 1
  /\ \E i \in 1..Len(EmittedBeforeCap) : EmittedBeforeCap[i] = Separator
  /\ Len(split(last.result, "\n")) = GREP_CAP + 1
  /\ startsWith(last.result, FoundMsg \o <<"1", "0", "1">>)

----------------------------------------------------------------------------
(* Properties of grep's matches under SpecGrepMatch.                       *)

\* The directory or file the call recorded in l searches, from c.
TargetOf(l, c) == IF l.path # Undefined /\ l.path # <<>> THEN resolve(l.path, c) ELSE c

\* The entries the search scans: no directory marker, the key begins with the
\* target, and when the target is itself a key only that key.
Scanned(fs, k, target) ==
  /\ ~endsWith(k, DirMarker)
  /\ startsWith(k, target)
  /\ (MapHas(fs, target) => k = target)

\* The match lines "path:N:content" of the scanned entries.
MatchLines(fs, target, pattern) ==
  { k \o <<":">> \o NumToString(i) \o <<":">> \o split(MapGet(fs, k), "\n")[i] :
      <<k, i>> \in { ki \in MapKeys(fs) \X (1..4) :
                       /\ Scanned(fs, ki[1], target)
                       /\ ki[2] <= Len(split(MapGet(fs, ki[1]), "\n"))
                       /\ RegexTest(pattern, split(MapGet(fs, ki[1]), "\n")[ki[2]]) } }

\* The single file notes.md = "hi" searched for "hi" from /home/user.
IsNotesExample ==
  /\ last.op = "grep"
  /\ files = << [path |-> NotesMd, content |-> <<"h", "i">>] >>
  /\ last.pattern = <<"h", "i">>
  /\ last.path = Undefined

C13_NoMarkers ==
  last.op = "grep" =>
    \A i \in 1..Len(Emitted(last.result)) :
      \A k \in MapKeys(files) :
        endsWith(k, DirMarker) => ~startsWith(Emitted(last.result)[i], k \o <<":">>)

\* A marker whose content matches was in the searched directory, or named as
\* the path itself, and the search reported other lines.
C13_Witness ==
  /\ last.op = "grep"
  /\ MapHas(files, SubdirMarker)
  /\ RegexTest(last.pattern, MapGet(files, SubdirMarker))
  /\ last.path \in { <<"d">>, Undefined }
  /\ last.result # NoMatchesFound

----------------------------------------------------------------------------
(* grep across file systems that hold the same files, under Spec.          *)

GrepVerb == <<"g", "r", "e", "p">>

\* The orders in which n entries can stand in the map.
Orders(n) == { p \in [1..n -> 1..n] : \A i, j \in 1..n : i # j => p[i] # p[j] }

\* The same path -> content mapping, with its entries in order p.
Reordered(fs, p) == [i \in 1..Len(fs) |-> fs[p[i]]]

\* C14 as stated: the output of a grep command is a function of the
\* path -> content mapping, cwd and the arguments: a file system holding the
\* same mapping with its entries written in another order gives the same
\* output, byte for byte.
C14_AsStated ==
  (last.op = "runShell" /\ startsWith(last.command, GrepVerb \o <<" ">>)) =>
    \A p \in Orders(Len(files)) :
      runShell(Reordered(files, p), cwd, last.command).result = last.result

----------------------------------------------------------------------------
(* The shell on its own: command lines given to runShell.                  *)

MaxShellDepth == 3
MaxShellFiles == 2

ATxt == VIRTUAL_ROOT \o <<"/", "a", ".", "t", "x", "t">>
DocsN == VIRTUAL_ROOT \o <<"/", "d", "o", "c", "s", "/", "n">>

ShellContent == <<"a", "\n", "m", "1", "\n", "b">>

CmdLs == <<"l", "s">>
CmdLsDocs == <<"l", "s", " ", "d", "o", "c", "s">>
CmdLsDocs2 == <<"l", "s", " ", " ", "d", "o", "c", "s">>
CmdPwd == <<"p", "w", "d">>
CmdCdDocs == <<"c", "d", " ", "d", "o", "c", "s">>
CmdCdDocs2 == <<"c", "d", " ", " ", "d", "o", "c", "s">>
CmdCdUp == <<"c", "d", " ", ".", ".">>
CmdRm == <<"r", "m", " ", "a", ".", "t", "x", "t">>
CmdRm2 == <<"r", "m", " ", " ", "a", ".", "t", "x", "t">>
CmdGrepBare == <<"g", "r", "e", "p">>
CmdGrepOnlyA == <<"g", "r", "e", "p", " ", "-", "A", " ", "3">>
CmdGrepOnlyBA == <<"g", "r", "e", "p", " ", "-", "B", " ", "1", " ", "-", "A", " ", "2">>
CmdGrepM == <<"g", "r", "e", "p", " ", "m">>
CmdGrepM2 == <<"g", "r", "e", "p", " ", " ", "m">>
CmdGrepA == <<"g", "r", "e", "p", " ", "-", "A", " ", "1", " ", "m">>
CmdGrepBFile ==
  <<"g", "r", "e", "p", " ", "-", "B", " ", "1", " ", "m", " ", "a", ".", "t", "x", "t">>
CmdGrepAB == <<"g", "r", "e", "p", " ", "-", "A", " ", "1", " ", "-", "B", " ", "2", " ", "m">>
CmdGrepBADir ==
  <<"g", "r", "e", "p", " ", "-", "B", " ", "2", " ", "-", "A", " ", "1", " ", "m", " ",
    "d", "o", "c", "s">>
CmdGrepAWord == <<"g", "r", "e", "p", " ", "-", "A", " ", "x", " ", "m">>
CmdGrepBEmpty == <<"g", "r", "e", "p", " ", "-", "B", " ", " ", "m">>
CmdGrepADigitWord == <<"g", "r", "e", "p", " ", "-", "A", " ", "1", "x", " ", "m">>
CmdGrepALast == <<"g", "r", "e", "p", " ", "-", "A">>
CmdGrepC == <<"g", "r", "e", "p", " ", "-", "C", " ", "1", " ", "m">>
CmdGrepOpenClass == <<"g", "r", "e", "p", " ", "[">>
CmdGrepOpenGroup == <<"g", "r", "e", "p", " ", "(", "m">>
CmdWget == <<"w", "g", "e", "t", " ", "x">>
CmdEmpty == <<>>
CmdUpperLs == <<"L", "S">>
CmdLsx == <<"l", "s", "x">>
CmdCat == <<"c", "a", "t", " ", "a", ".", "t", "x", "t">>

ShellCommands ==
  { CmdLs, CmdLsDocs, CmdLsDocs2, CmdPwd, CmdCdDocs, CmdCdDocs2, CmdCdUp, CmdRm, CmdRm2,
    CmdGrepBare, CmdGrepOnlyA, CmdGrepOnlyBA, CmdGrepM, CmdGrepM2, CmdGrepA, CmdGrepBFile,
    CmdGrepAB, CmdGrepBADir, CmdGrepAWord, CmdGrepBEmpty, CmdGrepADigitWord, CmdGrepALast,
    CmdGrepC, CmdGrepOpenClass, CmdGrepOpenGroup, CmdWget, CmdEmpty, CmdUpperLs, CmdLsx,
    CmdCat }

InitShell ==
  /\ files = <<>>
  /\ cwd = VIRTUAL_ROOT
  /\ last = [op |-> "new"]

WriteFile ==
  \E path \in {ATxt, DocsN} :
    LET r == write(files, cwd, path, ShellContent) IN
    /\ Len(r.files) <= MaxShellFiles
    /\ files' = r.files
    /\ last' = [op |-> "write", path |-> path, content |-> ShellContent, result |-> r.result]
    /\ UNCHANGED cwd

ReadFile ==
  \E path \in {ATxt, <<"n">>} :
    /\ last' = [op |-> "read", path |-> path, result |-> read(files, cwd, path)]
    /\ UNCHANGED <<files, cwd>>

Shell ==
  \E command \in ShellCommands :
    LET r == runShell(files, cwd, command) IN
    /\ Len(NonEmptySegments(r.cwd)) <= MaxShellDepth
    /\ files' = r.files
    /\ cwd' = r.cwd
    /\ last' = [op |-> "runShell", command |-> command, result |-> r.result]

SpecShell == InitShell /\ [][WriteFile \/ ReadFile \/ Shell]_vars

----------------------------------------------------------------------------
(* Properties of runShell under SpecShell.                                 *)

RequiresAPattern ==
  <<"r", "e", "q", "u", "i", "r", "e", "s", " ", "a", " ", "p", "a", "t", "t", "e", "r", "n">>

NotImplementedWords ==
  <<"n", "o", "t", " ", "i", "m", "p", "l", "e", "m", "e", "n", "t", "e", "d">>

\* A result that VirtualFileSystem.grep produced: its no-match message, a
\* thrown error, or lines that begin with a key of files.
IsGrepOutput(result) ==
  \/ result \in {NoMatchesFound, ThrownSyntaxError}
  \/ \E k \in MapKeys(files) : startsWith(result, k \o <<":">>)

\* The grep commands that give no pattern: the bare verb, and flags only.
NoPatternCommands == { CmdGrepBare, CmdGrepOnlyA, CmdGrepOnlyBA }

\* C15 as stated: a grep command without a pattern token (bare "grep", or
\* flags only) returns an error that contains "Error" and "requires a
\* pattern", and VirtualFileSystem.grep is not invoked.
C15_AsStated ==
  (last.op = "runShell" /\ last.command \in NoPatternCommands) =>
    /\ includes(last.result, ErrorWord)
    /\ includes(last.result, RequiresAPattern)
    /\ ~IsGrepOutput(last.result)

\* Well-formed grep commands with the arguments their tokens stand for.
FlagCases ==
  { [command |-> CmdGrepM, before |-> 0, after |-> 0, pattern |-> <<"m">>, path |-> Undefined],
    [command |-> CmdGrepA, before |-> 0, after |-> 1, pattern |-> <<"m">>, path |-> Undefined],
    [command |-> CmdGrepBFile, before |-> 1, after |-> 0, pattern |-> <<"m">>,
     path |-> <<"a", ".", "t", "x", "t">>],
    [command |-> CmdGrepAB, before |-> 2, after |-> 1, pattern |-> <<"m">>, path |-> Undefined],
    [command |-> CmdGrepBADir, before |-> 2, after |-> 1, pattern |-> <<"m">>,
     path |-> <<"d", "o", "c", "s">>] }

\* grep commands whose token after -A or -B is not a number: a word, nothing
\* before the next space, and a digit followed by a letter.
FlagErrorCases ==
  { [command |-> CmdGrepAWord, flag |-> <<"-", "A">>],
    [command |-> CmdGrepBEmpty, flag |-> <<"-", "B">>],
    [command |-> CmdGrepADigitWord, flag |-> <<"-", "A">>] }

\* C16 as stated: leading -A NUM and -B NUM flags, in either order, set after
\* and before (0 when absent), the next token is the pattern and the optional
\* one after it the path, and the result is that of VirtualFileSystem.grep
\* with these arguments; when the token after -A or -B is not numeric the
\* result is an error that names the flag, and grep is not called.
C16_AsStated ==
  last.op = "runShell" =>
    /\ \A fc \in FlagCases :
         last.command = fc.command =>
           last.result = grep(files, cwd, fc.pattern, fc.path, fc.before, fc.after)
    /\ \A fe \in FlagErrorCases :
         last.command = fe.command =>
           /\ includes(last.result, ErrorWord)
           /\ includes(last.result, fe.flag)
           /\ ~IsGrepOutput(last.result)

\* Commands written with two spaces after the verb, and their one-space form.
SpacedPairs ==
  { [wide |-> CmdCdDocs2, single |-> CmdCdDocs],
    [wide |-> CmdRm2, single |-> CmdRm],
    [wide |-> CmdLsDocs2, single |-> CmdLsDocs],
    [wide |-> CmdGrepM2, single |-> CmdGrepM] }

\* A step that runs a two-space command returns what the one-space form
\* returns from the same state, and leaves the same files and cwd.
SpacingIrrelevant ==
  \A sp \in SpacedPairs :
    (last'.op = "runShell" /\ last'.command = sp.wide) =>
      LET r == runShell(files, cwd, sp.single) IN
      /\ last'.result = r.result
      /\ files' = r.files
      /\ cwd' = r.cwd

\* C17 as stated: the command line is split into verb and rest on the first
\* run of whitespace, so a command with more than one space between verb and
\* argument ("cd  docs", "rm  a.txt") has the same result and the same effect
\* on files and cwd as its single-space form.
C17_AsStated == [][SpacingIrrelevant]_vars

KnownVerbs == { <<"l", "s">>, <<"p", "w", "d">>, <<"c", "d">>, <<"r", "m">>, GrepVerb }

\* The command line up to its first space.
VerbOf(command) == split(command, " ")[1]

\* A step that runs a command with an unknown verb returns an error that
\* says "not implemented" and names the verb, and changes nothing.
UnknownVerbRejected ==
  (last'.op = "runShell" /\ VerbOf(last'.command) \notin KnownVerbs) =>
    /\ includes(last'.result, ErrorWord)
    /\ includes(last'.result, NotImplementedWords)
    /\ includes(last'.result, <<"'">> \o VerbOf(last'.command) \o <<"'">>)
    /\ files' = files
    /\ cwd' = cwd

C19_AsStated ==
  last.op \in {"write", "read", "runShell"} =>
    /\ last.result # ThrownSyntaxError
    /\ (last.op = "runShell" /\ last.command \in {CmdGrepOpenClass, CmdGrepOpenGroup}) =>
         includes(last.result, ErrorWord)

----------------------------------------------------------------------------
(* The research tools and the backend they call.                           *)

MaxPapers == 2

PaperOne ==
  [arxiv_code |-> <<"p", "1">>, title |-> <<"T">>, authors |-> <<"A">>,
   published |-> <<"d">>, similarity |-> <<"0", ".", "9">>]
PaperTwo ==
  [arxiv_code |-> <<"p", "2">>, title |-> <<"U">>, authors |-> <<"B">>,
   published |-> Null, similarity |-> Undefined]

SummaryOne == [code |-> <<"p", "1">>, summary |-> <<"s">>]
SummaryTwo == [code |-> <<"p", "2">>, summary |-> <<"t">>]

\* What searchPapers can settle to: a rejection, or up to MaxPapers papers.
SearchOutcomes ==
  { [rejected |-> TRUE, papers |-> <<>>] }
    \cup { [rejected |-> FALSE, papers |-> ps] :
             ps \in UNION { [1..k -> {PaperOne, PaperTwo}] : k \in 0..MaxPapers } }

\* What getSummaries can settle to: a rejection, or entries with distinct codes.
SummaryOutcomes ==
  { [rejected |-> TRUE, summaries |-> <<>>] }
    \cup { [rejected |-> FALSE, summaries |-> ss] :
             ss \in { <<>>, <<SummaryOne>>, <<SummaryTwo>>, <<SummaryOne, SummaryTwo>>,
                      <<SummaryTwo, SummaryOne>> } }

\* What fetchPaperMarkdown can settle to.
FetchOutcomes == { Rejected, Null, <<>>, <<"a", "\n", "b">>, <<"c">> }

InitResearch ==
  /\ files = <<>>
  /\ cwd = VIRTUAL_ROOT
  /\ last = [op |-> "new"]

SearchArxiv ==
  \E backend \in SearchOutcomes :
    /\ last' = [op |-> "searchArxiv", rejected |-> backend.rejected,
                result |-> searchArxiv(backend)]
    /\ UNCHANGED <<files, cwd>>

GetPaperSummaries ==
  \E backend \in SummaryOutcomes :
    /\ last' = [op |-> "getPaperSummaries", rejected |-> backend.rejected,
                result |-> getPaperSummaries(backend)]
    /\ UNCHANGED <<files, cwd>>

FetchPaperFromBackend ==
  \E code \in { <<"p", "1">>, <<"p", "2">> }, content \in FetchOutcomes :
    LET r == fetchPaper(files, cwd, code, content) IN
    /\ files' = r.files
    /\ last' = [op |-> "fetchPaper", code |-> code, content |-> content, result |-> r.result]
    /\ UNCHANGED cwd

SpecResearch ==
  InitResearch /\ [][SearchArxiv \/ GetPaperSummaries \/ FetchPaperFromBackend]_vars

\* The backend call of the operation recorded in l rejected.
BackendFailed(l) ==
  \/ l.op \in {"searchArxiv", "getPaperSummaries"} /\ l.rejected
  \/ l.op = "fetchPaper" /\ l.content = Rejected

\* C20 as stated: when the backend call made by searchArxiv,
\* getPaperSummaries or fetchPaper rejects, the tool returns a descriptive
\* string; the failure does not leave the tool as an exception.
C20_AsStated == BackendFailed(last) => last.result # ThrownBackendError

----------------------------------------------------------------------------
(* How the tools report a failure.                                         *)

\* A step that makes a call which fails: readFile of a path that is not in
\* files, "rm a.txt" when that file is not there, a command with an unknown
\* verb, grep with an unknown flag (-C), with a flag whose value is a word,
\* is empty or is missing, and grep without a pattern.
FailingCall ==
  \/ last'.op = "read" /\ ~MapHas(files, resolve(last'.path, cwd))
  \/ /\ last'.op = "runShell"
     /\ \/ last'.command = CmdRm /\ ~MapHas(files, resolve(<<"a", ".", "t", "x", "t">>, cwd))
        \/ VerbOf(last'.command) \notin KnownVerbs
        \/ last'.command \in {CmdGrepC, CmdGrepAWord, CmdGrepBEmpty, CmdGrepALast}
        \/ last'.command \in NoPatternCommands

\* C21 as stated: every failure outcome of a tool is a string that contains
\* the word "Error": reading or removing a file that does not exist, an
\* unknown verb, an unknown or malformed grep flag and a grep command
\* without a pattern all return text containing "Error".
C21_AsStated == [][FailingCall => includes(last'.result, ErrorWord)]_vars

----------------------------------------------------------------------------
(* fetchPaper from several working directories.                            *)

\* Codes given to fetchPaper: a plain one, an old-style one with a slash,
\* and one that begins with a parent segment.
FetchCodes == { <<"p", "1">>, <<"h", "/", "9">>, <<".", ".", "/", "x">> }

\* What fetchPaperMarkdown settles to here: null, or the text of the paper.
FetchContents == { Null, <<"a", "\n", "b">>, <<"c">> }

\* Directories given to cd.
FetchDirs == { PapersDir, <<".", ".">>, <<"/">>, VIRTUAL_ROOT }

InitFetch ==
  /\ files = <<>>
  /\ cwd = VIRTUAL_ROOT
  /\ last = [op |-> "new"]

FetchCd ==
  \E path \in FetchDirs :
    LET r == cd(cwd, path) IN
    /\ cwd' = r.cwd
    /\ last' = [op |-> "cd", path |-> path, result |-> r.result]
    /\ UNCHANGED files

FetchPaperAt ==
  \E code \in FetchCodes, content \in FetchContents :
    LET r == fetchPaper(files, cwd, code, content) IN
    /\ files' = r.files
    /\ last' = [op |-> "fetchPaper", code |-> code, content |-> content, result |-> r.result]
    /\ UNCHANGED cwd

SpecFetch == InitFetch /\ [][FetchCd \/ FetchPaperAt]_vars

\* The key the tool's description gives for a code.
PaperKey(code) == PapersDir \o code \o DotMd

\* C22 as stated: for every code for which the backend returns content, the
\* content is stored in files under the key /home/user/papers/{code}.md,
\* whatever cwd is, the confirmation names that key and the length of the
\* content, and a read of that key returns the fetched content.
C22_AsStated ==
  (last.op = "fetchPaper" /\ last.content \notin {Null, Rejected, <<>>}) =>
    /\ MapHas(files, PaperKey(last.code))
    /\ \E i \in 1..Len(files) :
         /\ files[i].path = PaperKey(last.code)
         /\ files[i].content = last.content
    /\ includes(last.result, PaperKey(last.code))
    /\ includes(last.result, NumToString(Len(last.content)) \o CharsClose)
    /\ read(files, cwd, PaperKey(last.code)) = last.content

NotFoundWords == <<"n", "o", "t", " ", "f", "o", "u", "n", "d">>

\* A fetchPaper step for which the backend has no document returns an error
\* that says "not found" and names the code, and changes nothing.
NotFoundChangesNothing ==
  (last'.op = "fetchPaper" /\ last'.content = Null) =>
    /\ includes(last'.result, ErrorWord)
    /\ includes(last'.result, NotFoundWords)
    /\ includes(last'.result, last'.code)
    /\ files' = files
    /\ cwd' = cwd

\* C23: when the backend returns no document for a code, fetchPaper returns
\* a string containing "Error", "not found" and the code, and files and cwd
\* are exactly as before the call.
C23_NotFound == [][NotFoundChangesNothing]_vars

\* fetchPaper found no document for a code while another paper was stored
\* and cwd was the root; the stored paper is still there.
C23_Witness ==
  /\ last.op = "fetchPaper"
  /\ last.content = Null
  /\ last.code = <<"h", "/", "9">>
  /\ files = << [path |-> PaperKey(<<"p", "1">>), content |-> <<"c">>] >>
  /\ cwd = <<"/">>
  /\ last.result = ErrorPaper \o <<"h", "/", "9">> \o NotFoundInArchive

----------------------------------------------------------------------------
(* runAgent: generateText's loop of model steps and the result built from  *)
(* its steps.                                                              *)

STEP_LIMIT == 50

\* Steps at the start of a run, and at the step limit, in which the model's
\* response is drawn from the larger sets below.
MaxFreeSteps == 1
MaxTailSteps == 2

\* Writes and deletes a caller performs on the file system after a run.
MaxAfter == 1

KeyPath == <<"p", "a", "t", "h">>
KeyContent == <<"c", "o", "n", "t", "e", "n", "t">>
KeyArxivCode == <<"a", "r", "x", "i", "v", "_", "c", "o", "d", "e">>
ToolWriteFile == <<"w", "r", "i", "t", "e", "F", "i", "l", "e">>
ToolReadFile == <<"r", "e", "a", "d", "F", "i", "l", "e">>
ToolFetchPaper == <<"f", "e", "t", "c", "h", "P", "a", "p", "e", "r">>

FileA == <<"a">>
FileB == VIRTUAL_ROOT \o <<"/", "b">>

\* Tool calls a model response can hold: the tool and its input object; for
\* fetchPaper, also what the backend settles to during the call.
CallRead == [toolName |-> ToolReadFile, input |-> << [key |-> KeyPath, value |-> FileA] >>]
CallWrite ==
  [toolName |-> ToolWriteFile,
   input |-> << [key |-> KeyPath, value |-> FileA], [key |-> KeyContent, value |-> <<"x">>] >>]
CallFetchRejected ==
  [toolName |-> ToolFetchPaper, input |-> << [key |-> KeyArxivCode, value |-> <<"p", "1">>] >>,
   backend |-> Rejected]

\* The value of a key of a tool input.
InputValue(input, key) == input[CHOOSE i \in 1..Len(input) : input[i].key = key].value

\* The execute function of the tool a call names, on the file system of the
\* run; output is what it returns, or the error it throws.
ExecuteTool(fs, c, call) ==
  IF call.toolName = ToolWriteFile
    THEN LET r == write(fs, c, InputValue(call.input, KeyPath),
                        InputValue(call.input, KeyContent)) IN
         [files |-> r.files, cwd |-> c, output |-> r.result]
  ELSE IF call.toolName = ToolReadFile
    THEN [files |-> fs, cwd |-> c, output |-> read(fs, c, InputValue(call.input, KeyPath))]
  ELSE LET r == fetchPaper(fs, c, InputValue(call.input, KeyArxivCode), call.backend) IN
       [files |-> r.files, cwd |-> c, output |-> r.result]

\* The first n calls of a step run in turn: the file system they leave and
\* what each returned or threw.  For calls of which none writes after an
\* await this is also what starting them together leaves.
RECURSIVE ExecuteCalls(_, _, _, _)
ExecuteCalls(fs, c, calls, n) ==
  IF n = 0 THEN [files |-> fs, cwd |-> c, outputs |-> <<>>]
  ELSE LET before == ExecuteCalls(fs, c, calls, n - 1)
           r == ExecuteTool(before.files, before.cwd, calls[n]) IN
       [files |-> r.files, cwd |-> r.cwd, outputs |-> Append(before.outputs, r.output)]

Reverse(s) == [i \in 1..Len(s) |-> s[Len(s) + 1 - i]]

\* The step generateText records for a model response whose calls gave
\* outputs: the calls with their ids, the results of the calls that returned
\* (a call that threw has none), in call order or in the reverse order, the
\* reasoning parts and the text.
StepResult(resp, outputs, stepNo) ==
  LET n == Len(resp.calls)
      ids == [i \in 1..n |-> <<stepNo, i>>]
      returned == SelectSeq([i \in 1..n |-> i], LAMBDA i : outputs[i] # ThrownBackendError)
      results == [j \in 1..Len(returned) |->
                    [toolCallId |-> ids[returned[j]], output |-> outputs[returned[j]]]]
      calls == [i \in 1..n |->
                  [toolCallId |-> ids[i], toolName |-> resp.calls[i].toolName,
                   input |-> resp.calls[i].input]] IN
  [toolCalls |-> SubSeq(calls, 1, n),
   toolResults |-> SubSeq(IF resp.reversed THEN Reverse(results) ELSE results,
                          1, Len(returned)),
   reasoning |-> resp.reasoning,
   text |-> resp.text]

\* step.toolResults?.find((r) => r.toolCallId === tc.toolCallId)?.output
FindOutput(toolResults, toolCallId) ==
  IF \E i \in 1..Len(toolResults) : toolResults[i].toolCallId = toolCallId
    THEN LET first == CHOOSE i \in 1..Len(toolResults) :
                        /\ toolResults[i].toolCallId = toolCallId
                        /\ \A j \in 1..(i - 1) : toolResults[j].toolCallId # toolCallId IN
         toolResults[first].output
    ELSE Undefined

\* A faulty pairing: the i-th result of the step is taken for its i-th call.
StepToolCallsByPosition(step) ==
  [i \in 1..Len(step.toolCalls) |->
     [name |-> step.toolCalls[i].toolName,
      args |-> step.toolCalls[i].input,
      result |-> IF i <= Len(step.toolResults) THEN step.toolResults[i].output ELSE <<>>]]

\* The records runAgent pushes for one step; String(output ?? "").
StepToolCalls(step) ==
  [i \in 1..Len(step.toolCalls) |->
     LET output == FindOutput(step.toolResults, step.toolCalls[i].toolCallId) IN
     [name |-> step.toolCalls[i].toolName,
      args |-> step.toolCalls[i].input,
      result |-> IF output = Undefined THEN <<>> ELSE output]]

\* The toolCalls array after the loop over steps lo..hi.
RECURSIVE ToolCallsOf(_, _, _)
ToolCallsOf(steps, lo, hi) ==
  IF lo > hi THEN <<>>
  ELSE IF lo = hi THEN StepToolCalls(steps[lo])
  ELSE LET mid == (lo + hi) \div 2 IN
       ToolCallsOf(steps, lo, mid) \o ToolCallsOf(steps, mid + 1, hi)

\* step.reasoning.map(r => r.text).join("\n")
StepReasoning(step) == join(step.reasoning, <<"\n">>)

BlankLine == <<"\n", "\n">>

\* The reasoning variable after the loop over the first n steps: a step whose
\* reasoning is an array, empty or not, appends to it.
RECURSIVE ReasoningOf(_, _)
ReasoningOf(steps, n) ==
  IF n = 0 THEN Undefined
  ELSE LET reasoning == ReasoningOf(steps, n - 1) IN
       IF steps[n].reasoning # Undefined
         THEN (IF reasoning # Undefined /\ reasoning # <<>> THEN reasoning \o BlankLine ELSE <<>>)
                \o StepReasoning(steps[n])
         ELSE reasoning

\* Object.fromEntries(map): the object with one property per entry.
ObjectFromEntries(m) == [k \in MapKeys(m) |-> MapGet(m, k)]

\* A faulty files field: the Map of the file system itself.
LiveFiles(fs) == [ref |-> "fs.files", entries |-> ObjectFromEntries(<<>>)]

\* The files field of the result: a new object with the entries of fs.files.
SnapshotFiles(fs) == [ref |-> "object", entries |-> ObjectFromEntries(fs)]

\* The properties a reader of result.files finds when the file system is fs.
FilesOf(result, fs) ==
  IF result.files.ref = "fs.files" THEN ObjectFromEntries(fs) ELSE result.files.entries

\* The record runAgent returns; result.text is the text of the last step.
AgentResult(steps, fs) ==
  [text |-> steps[Len(steps)].text,
   steps |-> Len(steps),
   files |-> SnapshotFiles(fs),
   toolCalls |-> ToolCallsOf(steps, 1, Len(steps)),
   reasoning |-> ReasoningOf(steps, Len(steps))]

\* Model responses: tool calls with their reasoning and text, and answers.
Response(calls, reversed, reasoning, text) ==
  [calls |-> calls, reversed |-> reversed, reasoning |-> reasoning, text |-> text]

LoopCall == Response(<<CallRead>>, FALSE, Undefined, <<"t">>)
TwoCalls == Response(<<CallRead, CallRead>>, FALSE, Undefined, <<"t">>)
Answer == Response(<<>>, FALSE, Undefined, <<"t">>)

FreeResponses ==
  { LoopCall,
    Response(<<CallRead>>, FALSE, <<>>, <<>>),
    Response(<<CallWrite, CallRead>>, TRUE, << <<"r">> >>, <<>>),
    Response(<<CallFetchRejected, CallRead>>, FALSE, Undefined, <<"t">>),
    Answer,
    Response(<<>>, FALSE, <<>>, <<"t">>),
    Response(<<>>, FALSE, << <<"r">>, <<"s">> >>, <<"t">>) }

TailResponses ==
  { LoopCall, TwoCalls, Answer,
    Response(<<CallRead>>, FALSE, << <<"q">> >>, <<>>),
    Response(<<>>, FALSE, << <<"q">> >>, <<"u">>) }

\* The responses the model can give at step n of a run bounded by limit.
ResponsesAt(n, limit) ==
  IF n <= MaxFreeSteps THEN FreeResponses
  ELSE IF n > limit - MaxTailSteps THEN TailResponses
  ELSE { LoopCall, Answer }

InitAgent ==
  /\ files \in { <<>>, << [path |-> FileB, content |-> <<"y">>] >> }
  /\ cwd = VIRTUAL_ROOT
  /\ last = [op |-> "new"]

\* What a run that has not returned holds in place of an AgentResult.
NoResult == [returned |-> FALSE]

\* runAgent up to its call of generateText.
CallRunAgent ==
  /\ last.op = "new"
  /\ \E provided \in BOOLEAN :
       /\ files' = IF provided THEN files ELSE <<>>
       /\ cwd' = cwd
       /\ last' = [op |-> "runAgent", pc |-> "running", steps |-> <<>>, modelCalls |-> 0,
                   failed |-> FALSE, terminal |-> "none", result |-> NoResult, after |-> 0,
                   invoked |-> <<>>]

\* A model call that fails and, faultily, is made again.
ModelCallFailsAndRetries ==
  /\ last.op = "runAgent" /\ last.pc = "running"
  /\ last.modelCalls < STEP_LIMIT
  /\ last' = [last EXCEPT !.modelCalls = @ + 1, !.failed = TRUE]
  /\ UNCHANGED <<files, cwd>>

\* The model call of a step fails: generateText rejects, and runAgent, which
\* has no handler around it, rejects with it.
ModelCallFails ==
  /\ last.op = "runAgent" /\ last.pc = "running"
  /\ last' = [last EXCEPT !.modelCalls = @ + 1, !.failed = TRUE, !.pc = "threw"]
  /\ UNCHANGED <<files, cwd>>

\* The invocations of a step as they happened: each call with what its
\* execute function returned or threw.
Invocations(calls, outputs) ==
  SubSeq([i \in 1..Len(calls) |-> [call |-> calls[i], output |-> outputs[i]]], 1, Len(calls))

\* A faulty loop: the stop condition lets one more step through.
ModelCallsToolsPastLimit ==
  /\ last.op = "runAgent" /\ last.pc = "running"
  /\ \E resp \in { r \in ResponsesAt(Len(last.steps) + 1, STEP_LIMIT) : r.calls # <<>> } :
       LET fs == ExecuteCalls(files, cwd, resp.calls, Len(resp.calls))
           steps == Append(last.steps, StepResult(resp, fs.outputs, Len(last.steps) + 1)) IN
       /\ files' = fs.files
       /\ cwd' = fs.cwd
       /\ last' = IF Len(steps) > STEP_LIMIT
                    THEN [last EXCEPT !.steps = steps, !.modelCalls = @ + 1, !.pc = "returned",
                                      !.terminal = "StepLimitReached",
                                      !.result = AgentResult(steps, fs.files),
                                      !.invoked = @ \o Invocations(resp.calls, fs.outputs)]
                    ELSE [last EXCEPT !.steps = steps, !.modelCalls = @ + 1,
                                      !.invoked = @ \o Invocations(resp.calls, fs.outputs)]

\* The model requests tool calls: generateText runs them and goes on to the
\* next step unless stepCountIs(STEP_LIMIT) holds; then runAgent returns.
\* invoked keeps the invocations of the run in the order they were made.
ModelCallsTools ==
  /\ last.op = "runAgent" /\ last.pc = "running"
  /\ \E resp \in { r \in ResponsesAt(Len(last.steps) + 1, STEP_LIMIT) : r.calls # <<>> } :
       LET fs == ExecuteCalls(files, cwd, resp.calls, Len(resp.calls))
           steps == Append(last.steps, StepResult(resp, fs.outputs, Len(last.steps) + 1)) IN
       /\ files' = fs.files
       /\ cwd' = fs.cwd
       /\ last' = IF Len(steps) >= STEP_LIMIT
                    THEN [last EXCEPT !.steps = steps, !.modelCalls = @ + 1, !.pc = "returned",
                                      !.terminal = "StepLimitReached",
                                      !.result = AgentResult(steps, fs.files),
                                      !.invoked = @ \o Invocations(resp.calls, fs.outputs)]
                    ELSE [last EXCEPT !.steps = steps, !.modelCalls = @ + 1,
                                      !.invoked = @ \o Invocations(resp.calls, fs.outputs)]

\* The model answers without a tool call: generateText stops and runAgent
\* returns.
ModelAnswers ==
  /\ last.op = "runAgent" /\ last.pc = "running"
  /\ \E resp \in { r \in ResponsesAt(Len(last.steps) + 1, STEP_LIMIT) : r.calls = <<>> } :
       LET steps == Append(last.steps, StepResult(resp, <<>>, Len(last.steps) + 1)) IN
       /\ last' = [last EXCEPT !.steps = steps, !.modelCalls = @ + 1, !.pc = "returned",
                               !.terminal = "Completed",
                               !.result = AgentResult(steps, files)]
       /\ UNCHANGED <<files, cwd>>

\* The caller writes to the file system after the run has returned.
WriteAfterReturn ==
  /\ last.op = "runAgent" /\ last.pc = "returned" /\ last.after < MaxAfter
  /\ \E path \in {FileA, FileB} :
       /\ files' = write(files, cwd, path, <<"z">>).files
       /\ last' = [last EXCEPT !.after = @ + 1]
       /\ UNCHANGED cwd

\* The caller deletes from the file system after the run has returned.
DeleteAfterReturn ==
  /\ last.op = "runAgent" /\ last.pc = "returned" /\ last.after < MaxAfter
  /\ \E path \in {FileA, FileB} :
       /\ files' = delete(files, cwd, path).files
       /\ last' = [last EXCEPT !.after = @ + 1]
       /\ UNCHANGED cwd

----------------------------------------------------------------------------
(* Properties of the result of runAgent.                                   *)

Returned == last.op = "runAgent" /\ last.pc = "returned"

\* C25: result.toolCalls has exactly one record per tool invocation made
\* during the run, in the order the invocations were made (by step, then by
\* position within the step), each with the name and the input of the call,
\* and the result of each record is the string that same invocation
\* returned, even when the step lists its results in another order or lacks
\* the result of an earlier call.
C25_TraceOrder ==
  Returned =>
    /\ Len(last.result.toolCalls) = Len(last.invoked)
    /\ \A i \in 1..Len(last.invoked) :
         /\ last.result.toolCalls[i].name = last.invoked[i].call.toolName
         /\ last.result.toolCalls[i].args = last.invoked[i].call.input
         /\ last.invoked[i].output # ThrownBackendError =>
              last.result.toolCalls[i].result = last.invoked[i].output

\* A run returned after a step with two calls whose results were listed in
\* the reverse order, and its records pair each call with its own output.
C25_Witness ==
  /\ Returned
  /\ \E n \in 1..Len(last.steps) :
       /\ Len(last.steps[n].toolCalls) = 2
       /\ Len(last.steps[n].toolResults) = 2
       /\ last.steps[n].toolResults[1].toolCallId = last.steps[n].toolCalls[2].toolCallId
       /\ last.steps[n].toolResults[1].output # last.steps[n].toolResults[2].output
  /\ Len(last.result.toolCalls) > 2
  /\ last.result.toolCalls[1].name = ToolWriteFile
  /\ last.result.toolCalls[1].result = last.invoked[1].output

\* The steps of the run in which the model requested the tool calls of the
\* last step together with those of the step before it, and then answered
\* with the text and the reasoning of the last step without a tool call.
CompletedTwin(steps) ==
  LET n == Len(steps)
      prev == steps[n - 1]
      moved == [j \in 1..Len(steps[n].toolCalls) |->
                  [steps[n].toolCalls[j] EXCEPT
                     !.toolCallId = <<n - 1, Len(prev.toolCalls) + j>>]]
      movedResults == [j \in 1..Len(steps[n].toolResults) |->
                         [steps[n].toolResults[j] EXCEPT
                            !.toolCallId = <<n - 1, Len(prev.toolCalls)
                                                      + steps[n].toolResults[j].toolCallId[2]>>]] IN
  SubSeq(steps, 1, n - 2)
    \o << [prev EXCEPT !.toolCalls = @ \o moved, !.toolResults = @ \o movedResults] >>
    \o << [steps[n] EXCEPT !.toolCalls = <<>>, !.toolResults = <<>>] >>

\* C26 as stated: from what runAgent hands back the caller can tell a run
\* that hit the step limit from one that completed: the AgentResult of a
\* run that stopped at the limit differs from the AgentResult of the run
\* that made the same tool calls one step earlier and completed with an
\* answer in its last step.
C26_AsStated ==
  (Returned /\ last.after = 0 /\ last.terminal = "StepLimitReached") =>
    last.result # AgentResult(CompletedTwin(last.steps), files)

\* Once a model call of a run has failed, the run has thrown, it has no
\* result, and no step makes another model call for it.
FailureIsFatal ==
  (last'.op = "runAgent" /\ last'.failed) =>
    /\ last'.pc = "threw"
    /\ last'.result = NoResult
    /\ (last.op = "runAgent" /\ last.failed) =>
         /\ last'.modelCalls = last.modelCalls
         /\ last'.steps = last.steps

\* C27: if the underlying model call fails, runAgent makes no further model
\* call for that run, returns no AgentResult, and the failure reaches the
\* caller as an error.
C27_Fatal == [][FailureIsFatal]_vars

\* The model call of the third step failed after a step that wrote a file.
C27_Witness ==
  /\ last.op = "runAgent"
  /\ last.pc = "threw"
  /\ last.failed
  /\ Len(last.steps) = 2
  /\ last.modelCalls = 3
  /\ MapHas(files, VIRTUAL_ROOT \o <<"/">> \o FileA)
  /\ last.result = NoResult

\* The steps that emitted at least one reasoning fragment.
EmittingSteps(steps) ==
  SelectSeq(steps, LAMBDA st : st.reasoning # Undefined /\ st.reasoning # <<>>)

\* The fragments of each emitting step, the steps joined by one blank line;
\* undefined when no step emitted a fragment.
ExpectedReasoning(steps) ==
  LET emitting == EmittingSteps(steps) IN
  IF emitting = <<>> THEN Undefined
  ELSE join([i \in 1..Len(emitting) |-> StepReasoning(emitting[i])], BlankLine)

\* C29 as stated: result.reasoning is the reasoning fragments in emission
\* order, the fragments of different steps joined by exactly one blank line
\* with no leading or trailing separator; a step that emitted no reasoning
\* contributes nothing, and reasoning is undefined when no step emitted a
\* fragment.
C29_AsStated == Returned => last.result.reasoning = ExpectedReasoning(last.steps)

\* The files of a result equal the file system as the last tool call of the
\* run left it, and a later write or delete does not change them.
SnapshotKept ==
  /\ (last.op = "runAgent" /\ last.pc = "running" /\ last'.pc = "returned") =>
       /\ DOMAIN FilesOf(last'.result, files') = MapKeys(files')
       /\ \A i \in 1..Len(files') :
            FilesOf(last'.result, files')[files'[i].path] = files'[i].content
  /\ (last.op = "runAgent" /\ last.pc = "returned" /\ last'.pc = "returned") =>
       FilesOf(last'.result, files') = FilesOf(last.result, files)

\* C30: result.files equals the path to content mapping of the file system
\* after the last tool call of the run, the files present before the run
\* included when a file system was passed in, and it is a snapshot: a write
\* or delete on the file system after runAgent has returned does not change
\* the files of the returned result.
C30_Snapshot == [][SnapshotKept]_vars

\* A run on a passed-in file system that held b wrote a and returned; b was
\* deleted afterwards, and the result still has both files.
C30_Witness ==
  /\ Returned
  /\ last.after = 1
  /\ ~MapHas(files, FileB)
  /\ DOMAIN FilesOf(last.result, files) = {FileB, VIRTUAL_ROOT \o <<"/">> \o FileA}
  /\ FilesOf(last.result, files)[FileB] = <<"y">>
  /\ FilesOf(last.result, files)[VIRTUAL_ROOT \o <<"/">> \o FileA] = <<"x">>

----------------------------------------------------------------------------
(* runAgentStreaming: the parts of streamText's fullStream and what the    *)
(* loop over them writes to stdout.                                        *)

STREAM_STEP_LIMIT == 10
ARGS_MAX == 60
RESULT_MAX == 200

\* The escape character of the colour sequences, as one element.
Esc == <<"ESC">>
Grey(s) == Esc \o <<"[", "9", "0", "m">> \o s \o Esc \o <<"[", "0", "m">>
Ellipsis == <<".", ".", ".">>

\* JSON.stringify of a string.
RECURSIVE JsonEscape(_)
JsonEscape(s) ==
  IF s = <<>> THEN <<>>
  ELSE IF Len(s) = 1
    THEN (IF s[1] = "\"" THEN <<"\\", "\"">>
          ELSE IF s[1] = "\\" THEN <<"\\", "\\">>
          ELSE IF s[1] = "\n" THEN <<"\\", "n">>
          ELSE s)
  ELSE LET h == Len(s) \div 2 IN
       JsonEscape(SubSeq(s, 1, h)) \o JsonEscape(SubSeq(s, h + 1, Len(s)))

JsonStringify(v) == <<"\"">> \o JsonEscape(v) \o <<"\"">>

\* formatArgs(args): k=JSON.stringify(v) joined by ", ", cut at ARGS_MAX.
formatArgs(args) ==
  LET result == join([i \in 1..Len(args) |->
                        args[i].key \o <<"=">> \o JsonStringify(args[i].value)],
                     <<",", " ">>) IN
  IF Len(result) > ARGS_MAX THEN SubSeq(result, 1, ARGS_MAX) \o Ellipsis ELSE result

WhiteSpace == {" ", "\n", "\t", "\r"}

\* String.prototype.trim
RECURSIVE trim(_)
trim(s) ==
  IF s = <<>> THEN s
  ELSE IF s[1] \in WhiteSpace THEN trim(Tail(s))
  ELSE IF s[Len(s)] \in WhiteSpace THEN trim(SubSeq(s, 1, Len(s) - 1))
  ELSE s

\* truncate(text, maxLen): newlines to spaces, trimmed, cut at maxLen.
truncate(text, maxLen) ==
  LET clean == trim([i \in 1..Len(text) |-> IF text[i] = "\n" THEN " " ELSE text[i]]) IN
  IF Len(clean) > maxLen THEN SubSeq(clean, 1, maxLen) \o Ellipsis ELSE clean

ToolTag == <<"[", "t", "o", "o", "l", "]">>
ResultTag == <<"[", "r", "e", "s", "u", "l", "t", "]">>

\* The parts streamText emits for one model step: a reasoning part for each
\* fragment, a text-delta part when the step has text (its textDelta is
\* undefined when the provider's parts carry the text in another property),
\* a tool-call part for each call, a tool-result part for each call that
\* returned, in call order or in the reverse order, and finish-step.
Part(type, stepNo, textDelta, call, output) ==
  [type |-> type, step |-> stepNo, textDelta |-> textDelta, call |-> call, output |-> output]

NoCall == [toolCallId |-> <<0, 0>>, toolName |-> <<>>, input |-> <<>>]

StepParts(resp, outputs, stepNo, deltas) ==
  LET st == StepResult(resp, outputs, stepNo)
      fragments == IF resp.reasoning = Undefined THEN <<>> ELSE resp.reasoning IN
  [i \in 1..Len(fragments) |-> Part("reasoning", stepNo, fragments[i], NoCall, Undefined)]
    \o (IF resp.text = <<>> THEN <<>>
        ELSE << Part("text-delta", stepNo, IF deltas THEN resp.text ELSE Undefined,
                     NoCall, Undefined) >>)
    \o [i \in 1..Len(st.toolCalls) |->
          Part("tool-call", stepNo, Undefined, st.toolCalls[i], Undefined)]
    \o [i \in 1..Len(st.toolResults) |->
          Part("tool-result", stepNo, Undefined,
               [NoCall EXCEPT !.toolCallId = st.toolResults[i].toolCallId],
               st.toolResults[i].output)]
    \o << Part("finish-step", stepNo, Undefined, NoCall, Undefined) >>

FinishPart(stepNo) == Part("finish", stepNo, Undefined, NoCall, Undefined)

\* if (part.textDelta): neither undefined nor the empty string.
Truthy(v) == v # Undefined /\ v # <<>>

\* One write to stdout, with the position in the stream of the part it was
\* made for (0 for the writes after the loop).
Written(idx, text) == [part |-> idx, text |-> text]

\* The body of the loop for the part at position idx: the switch on its type.
HandlePart(st, part, idx) ==
  IF part.type = "reasoning"
    THEN IF Truthy(part.textDelta)
           THEN [st EXCEPT !.out = Append(@, Written(idx, Grey(part.textDelta)))]
           ELSE st
  ELSE IF part.type = "tool-call"
    THEN [st EXCEPT !.toolCalls = @ + 1, !.steps = @ + 1,
                    !.out = Append(@, Written(idx,
                               <<"\n">> \o Grey(ToolTag) \o <<" ">> \o part.call.toolName
                                 \o <<"(">> \o formatArgs(part.call.input) \o <<")", "\n">>))]
  ELSE IF part.type = "tool-result"
    THEN [st EXCEPT !.out = Append(@, Written(idx,
                               Grey(ResultTag) \o <<" ">> \o truncate(part.output, RESULT_MAX)
                                 \o <<"\n">>))]
  ELSE IF part.type = "text-delta"
    THEN IF Truthy(part.textDelta)
           THEN [st EXCEPT !.out = Append(@, Written(idx, part.textDelta)),
                           !.textStreamed = TRUE]
           ELSE st
  ELSE IF part.type = "finish"
    THEN [st EXCEPT !.steps = @ + 1]
  ELSE st

\* The loop over the parts from position n on, st.parts being those before.
RECURSIVE HandleParts(_, _, _)
HandleParts(st, parts, n) ==
  IF n = 0 THEN st
  ELSE LET before == HandleParts(st, parts, n - 1) IN
       [HandlePart(before, parts[n], Len(st.parts) + n) EXCEPT !.parts = Append(@, parts[n])]

StepsWord == <<" ", "s", "t", "e", "p", "s", ",", " ">>
ToolCallsWord == <<" ", "t", "o", "o", "l", " ", "c", "a", "l", "l", "s", "]">>

\* A faulty end: the final text is printed also when it was streamed.
AfterLoopPrintsAgain(st, finalText) ==
  LET printed == [st EXCEPT !.out = Append(@, Written(0, finalText \o <<"\n">>))] IN
  IF st.toolCalls > 0
    THEN [printed EXCEPT !.out = Append(@, Written(0,
            <<"\n", "[">> \o NumToString(st.steps) \o StepsWord
              \o NumToString(st.toolCalls) \o ToolCallsWord \o <<"\n">>))]
    ELSE printed

\* After the loop: a newline after streamed text, or else the final text;
\* then the count of steps and tool calls when a tool was called.
AfterLoop(st, finalText) ==
  LET printed == IF st.textStreamed THEN [st EXCEPT !.out = Append(@, Written(0, <<"\n">>))]
                 ELSE IF finalText # <<>>
                   THEN [st EXCEPT !.out = Append(@, Written(0, finalText \o <<"\n">>))]
                 ELSE st IN
  IF st.toolCalls > 0
    THEN [printed EXCEPT !.out = Append(@, Written(0,
            <<"\n", "[">> \o NumToString(st.steps) \o StepsWord
              \o NumToString(st.toolCalls) \o ToolCallsWord \o <<"\n">>))]
    ELSE printed

\* runAgentStreaming up to its call of streamText; deltas says whether the
\* provider's text-delta parts carry their text in textDelta.
CallRunAgentStreaming ==
  /\ last.op = "new"
  /\ \E provided \in BOOLEAN, deltas \in BOOLEAN :
       /\ files' = IF provided THEN files ELSE <<>>
       /\ cwd' = cwd
       /\ last' = [op |-> "runAgentStreaming", pc |-> "running", modelSteps |-> 0,
                   deltas |-> deltas, parts |-> <<>>, out |-> <<>>, toolCalls |-> 0,
                   steps |-> 0, textStreamed |-> FALSE, finalText |-> <<>>]

\* The loop state of a run record.
LoopState(l) ==
  [parts |-> l.parts, out |-> l.out, toolCalls |-> l.toolCalls, steps |-> l.steps,
   textStreamed |-> l.textStreamed]

\* The run record with the loop state st.
WithLoopState(l, st) ==
  [l EXCEPT !.parts = st.parts, !.out = st.out, !.toolCalls = st.toolCalls,
            !.steps = st.steps, !.textStreamed = st.textStreamed]

\* A step in which the model requests tool calls: the loop handles its parts;
\* at stepCountIs(STREAM_STEP_LIMIT) the stream finishes and the function
\* prints the end of its output.
StreamCallsTools ==
  /\ last.op = "runAgentStreaming" /\ last.pc = "running"
  /\ \E resp \in { r \in ResponsesAt(last.modelSteps + 1, STREAM_STEP_LIMIT) : r.calls # <<>> } :
       LET n == last.modelSteps + 1
           fs == ExecuteCalls(files, cwd, resp.calls, Len(resp.calls))
           parts == StepParts(resp, fs.outputs, n, last.deltas)
           more == IF n >= STREAM_STEP_LIMIT THEN Append(parts, FinishPart(n)) ELSE parts
           st == HandleParts(LoopState(last), more, Len(more)) IN
       /\ files' = fs.files
       /\ cwd' = fs.cwd
       /\ last' = IF n >= STREAM_STEP_LIMIT
                    THEN [WithLoopState(last, AfterLoop(st, resp.text)) EXCEPT
                            !.modelSteps = n, !.finalText = resp.text, !.pc = "done"]
                    ELSE [WithLoopState(last, st) EXCEPT !.modelSteps = n]

\* A step in which the model answers without a tool call: the stream
\* finishes and the function prints the end of its output.
StreamAnswers ==
  /\ last.op = "runAgentStreaming" /\ last.pc = "running"
  /\ \E resp \in { r \in ResponsesAt(last.modelSteps + 1, STREAM_STEP_LIMIT) : r.calls = <<>> } :
       LET n == last.modelSteps + 1
           parts == Append(StepParts(resp, <<>>, n, last.deltas), FinishPart(n))
           st == HandleParts(LoopState(last), parts, Len(parts)) IN
       /\ last' = [WithLoopState(last, AfterLoop(st, resp.text)) EXCEPT
                     !.modelSteps = n, !.finalText = resp.text, !.pc = "done"]
       /\ UNCHANGED <<files, cwd>>

\* The model call of a step fails: the stream carries an error part, which
\* the switch ignores, ends, and the await of result.text rejects.
StreamFails ==
  /\ last.op = "runAgentStreaming" /\ last.pc = "running"
  /\ LET n == last.modelSteps + 1
         st == HandleParts(LoopState(last),
                           << Part("error", n, Undefined, NoCall, Undefined) >>, 1) IN
     last' = [WithLoopState(last, st) EXCEPT !.pc = "threw"]
  /\ UNCHANGED <<files, cwd>>

\* The steps of a run in progress, of either entry point.
RunStep ==
  \/ CallRunAgent \/ CallRunAgentStreaming
  \/ ModelCallFails \/ StreamFails
  \/ ModelCallsTools \/ ModelAnswers
  \/ StreamCallsTools \/ StreamAnswers

NextAgent == RunStep \/ WriteAfterReturn \/ DeleteAfterReturn

SpecAgent == InitAgent /\ [][NextAgent]_vars

\* How far the run has come: its position and the model steps made so far.
\* Every step of a run in progress changes it.
Progress ==
  IF last.op = "runAgent" THEN <<last.pc, last.modelCalls>>
  ELSE IF last.op = "runAgentStreaming" THEN <<last.pc, last.modelSteps>>
  ELSE <<"new", 0>>

\* Every model call of a run settles, so a run in progress takes its next
\* step.
SpecAgentFair == SpecAgent /\ WF_Progress(RunStep)

----------------------------------------------------------------------------
(* Properties of runAgentStreaming's output.                               *)

Streaming == last.op = "runAgentStreaming"

\* A part that has something to show: a tool call, a tool result, or a
\* reasoning or text delta that carries text.
ShownPart(p) ==
  \/ p.type \in {"tool-call", "tool-result"}
  \/ p.type \in {"reasoning", "text-delta"} /\ Truthy(p.textDelta)

\* The positions in the stream of the parts that have something to show.
ShownPositions(parts) ==
  SelectSeq([i \in 1..Len(parts) |-> i], LAMBDA i : ShownPart(parts[i]))

\* The writes made inside the loop, and the positions they were made for.
LoopWrites(out) == SelectSeq(out, LAMBDA w : w.part > 0)
WrittenPositions(out) == [i \in 1..Len(LoopWrites(out)) |-> LoopWrites(out)[i].part]

RECURSIVE Concat(_)
Concat(texts) == IF texts = <<>> THEN <<>> ELSE texts[1] \o Concat(Tail(texts))

\* The text deltas of step n that were written, put together.
StreamedText(l, n) ==
  LET ws == SelectSeq(LoopWrites(l.out),
                      LAMBDA w : l.parts[w.part].type = "text-delta" /\ l.parts[w.part].step = n) IN
  Concat([i \in 1..Len(ws) |-> ws[i].text])

\* How many times the text was printed whole after the loop.
PrintedWhole(l, text) ==
  Cardinality({ i \in 1..Len(l.out) : l.out[i].part = 0 /\ l.out[i].text = text \o <<"\n">> })

\* C28: the writes for tool calls, tool results, reasoning deltas and text
\* deltas are made once each and in the order of their parts in the stream;
\* the line of a tool call is written before the line of its result, and
\* both before any text of a later step; what is written after the loop
\* comes last; and a final text is written exactly once, streamed as deltas
\* or printed whole at the end when no text delta was written, never both.
C28_EmissionOrder ==
  Streaming =>
    /\ WrittenPositions(last.out) = ShownPositions(last.parts)
    /\ \A i, j \in 1..Len(last.out) :
         LET wi == last.out[i]
             wj == last.out[j] IN
         /\ (wi.part > 0 /\ wj.part = 0) => i < j
         /\ (wi.part > 0 /\ wj.part > 0) =>
              LET pi == last.parts[wi.part]
                  pj == last.parts[wj.part] IN
              /\ (pi.type = "tool-call" /\ pj.type = "tool-result"
                    /\ pi.call.toolCallId = pj.call.toolCallId) =>
                   /\ i < j
                   /\ includes(wi.text, pi.call.toolName)
                   /\ includes(wj.text, truncate(pj.output, RESULT_MAX))
              /\ (pi.type \in {"tool-call", "tool-result"} /\ pj.type = "text-delta"
                    /\ pi.step < pj.step) => i < j
    /\ (last.pc = "done" /\ last.finalText # <<>>) =>
         \/ /\ StreamedText(last, last.modelSteps) = last.finalText
            /\ PrintedWhole(last, last.finalText) = 0
         \/ /\ \A i \in 1..Len(last.out) :
                 last.out[i].part > 0 => last.parts[last.out[i].part].type # "text-delta"
            /\ PrintedWhole(last, last.finalText) = 1

\* A streaming run ended after a step of two tool calls whose results came
\* in the reverse order and a step that streamed the final text.
C28_Witness ==
  /\ Streaming
  /\ last.pc = "done"
  /\ last.modelSteps = 2
  /\ last.toolCalls = 2
  /\ last.textStreamed
  /\ last.finalText = <<"t">>
  /\ last.parts[4].type = "tool-result"
  /\ last.parts[4].call.toolCallId = <<1, 2>>
  /\ Len(last.out) = 8

----------------------------------------------------------------------------
(* The step bound of both entry points.                                    *)

\* Every step of the run so far requested a tool call.
AlwaysCalled(l) ==
  IF l.op = "runAgent"
    THEN \A n \in 1..Len(l.steps) : l.steps[n].toolCalls # <<>>
    ELSE \A n \in 1..l.modelSteps :
           \E i \in 1..Len(l.parts) : l.parts[i].step = n /\ l.parts[i].type = "tool-call"

\* The run has ended: runAgent returned or threw, runAgentStreaming is done
\* or threw.
Terminated == last.op # "new" /\ last.pc \in {"returned", "threw", "done"}

\* No run takes more model steps than its bound, and a run whose model
\* asked for a tool call at every step and never failed ends after exactly
\* the bound: runAgent returns a result with the text of the last step,
\* steps equal to the bound and a record for every invocation.
StepBound ==
  /\ last.op = "runAgent" =>
       /\ last.modelCalls <= STEP_LIMIT
       /\ Len(last.steps) <= STEP_LIMIT
       /\ (last.pc = "returned" /\ AlwaysCalled(last)) =>
            /\ Len(last.steps) = STEP_LIMIT
            /\ last.result.steps = STEP_LIMIT
            /\ last.result.text = last.steps[STEP_LIMIT].text
            /\ Len(last.result.toolCalls) = Len(last.invoked)
            /\ Len(last.invoked) >= STEP_LIMIT
       /\ (Len(last.steps) = STEP_LIMIT /\ ~last.failed) => last.pc = "returned"
  /\ Streaming =>
       /\ last.modelSteps <= STREAM_STEP_LIMIT
       /\ (last.pc = "done" /\ AlwaysCalled(last)) => last.modelSteps = STREAM_STEP_LIMIT
       /\ last.modelSteps = STREAM_STEP_LIMIT => last.pc = "done"

----------------------------------------------------------------------------
(* Two runs at once, each on the VirtualFileSystem runAgent made for it.   *)

MaxRunCalls == 2

Runs == {1, 2}

\* The operations of VirtualFileSystem the tool calls of a run reach.
RunCalls ==
  { [op |-> "write", path |-> FileA, content |-> <<"x">>],
    [op |-> "read", path |-> FileA, content |-> <<>>],
    [op |-> "cd", path |-> <<".", ".">>, content |-> <<>>],
    [op |-> "rm", path |-> FileA, content |-> <<>>] }

\* One operation on the instance with files fs and cwd c.
RunCall(fs, c, call) ==
  IF call.op = "write"
    THEN [files |-> write(fs, c, call.path, call.content).files, cwd |-> c,
          output |-> write(fs, c, call.path, call.content).result]
  ELSE IF call.op = "read"
    THEN [files |-> fs, cwd |-> c, output |-> read(fs, c, call.path)]
  ELSE IF call.op = "cd"
    THEN [files |-> fs, cwd |-> cd(c, call.path).cwd, output |-> cd(c, call.path).result]
  ELSE [files |-> delete(fs, c, call.path).files, cwd |-> c,
        output |-> delete(fs, c, call.path).result]

\* A faulty construction: every run is given the same instance.
SharedInstance(run) == 1

\* The instance the tools of a run are bound to: the one runAgent made for
\* that run when its caller provided none.
InstanceOf(run) == run

\* Two runs have begun; each instance is new.
InitParallel ==
  /\ files = [run \in Runs |-> <<>>]
  /\ cwd = [run \in Runs |-> VIRTUAL_ROOT]
  /\ last = [op |-> "parallel", calls |-> [run \in Runs |-> <<>>],
             outputs |-> [run \in Runs |-> <<>>], order |-> <<>>]

\* A tool call of one of the runs executes, between any two of the other's.
RunToolCall ==
  \E run \in Runs, call \in RunCalls :
    /\ Len(last.calls[run]) < MaxRunCalls
    /\ LET i == InstanceOf(run)
           r == RunCall(files[i], cwd[i], call) IN
       /\ files' = [files EXCEPT ![i] = r.files]
       /\ cwd' = [cwd EXCEPT ![i] = r.cwd]
       /\ last' = [last EXCEPT !.calls[run] = Append(@, call),
                               !.outputs[run] = Append(@, r.output),
                               !.order = Append(@, run)]

SpecParallel == InitParallel /\ [][RunToolCall]_vars

\* The first n of calls made by a run that is alone, on a new instance.
RECURSIVE Alone(_, _)
Alone(calls, n) ==
  IF n = 0 THEN [files |-> <<>>, cwd |-> VIRTUAL_ROOT, outputs |-> <<>>]
  ELSE LET before == Alone(calls, n - 1)
           r == RunCall(before.files, before.cwd, calls[n]) IN
       [files |-> r.files, cwd |-> r.cwd, outputs |-> Append(before.outputs, r.output)]

\* C31: under every interleaving of the tool calls of two runs with distinct
\* VirtualFileSystem instances, the files, the cwd and the tool results of
\* each run are those it would have had running alone.
C31_Isolation ==
  last.op = "parallel" =>
    \A run \in Runs :
      LET alone == Alone(last.calls[run], Len(last.calls[run])) IN
      /\ files[run] = alone.files
      /\ cwd[run] = alone.cwd
      /\ last.outputs[run] = alone.outputs

\* The runs took turns; the first wrote a file the second then failed to
\* read, and the second changed its directory.
C31_Witness ==
  /\ last.op = "parallel"
  /\ last.order = <<1, 2, 1, 2>>
  /\ files[1] # <<>>
  /\ files[2] = <<>>
  /\ cwd[1] = VIRTUAL_ROOT
  /\ cwd[2] # VIRTUAL_ROOT
  /\ \E k \in 1..MaxRunCalls :
       last.calls[2][k].op = "read" /\ startsWith(last.outputs[2][k], ErrorWord)

----------------------------------------------------------------------------
(* The tool calls of one step, as generateText runs their execute          *)
(* functions: each is started once those before it have been started, and *)
(* a call that awaits the backend goes on when the backend has settled.    *)

MaxStepCalls == 2

PaperOneCode == <<"p", "1">>

\* Calls on the file fetchPaper stores paper p1 in.
StepCallWrite ==
  [toolName |-> ToolWriteFile,
   input |-> << [key |-> KeyPath, value |-> PaperKey(PaperOneCode)],
                [key |-> KeyContent, value |-> <<"x">>] >>]
StepCallRead ==
  [toolName |-> ToolReadFile, input |-> << [key |-> KeyPath, value |-> PaperKey(PaperOneCode)] >>]
StepCallFetch(backend) ==
  [toolName |-> ToolFetchPaper, input |-> << [key |-> KeyArxivCode, value |-> PaperOneCode] >>,
   backend |-> backend]

StepCalls ==
  { StepCallWrite, StepCallRead, StepCallFetch(<<"c">>), StepCallFetch(Null),
    StepCallFetch(Rejected) }

\* The tool calls of a model response: up to MaxStepCalls of them.
StepCallSeqs ==
  UNION { [1..n -> StepCalls] : n \in 1..MaxStepCalls }

\* The execute function awaits the backend before it touches the file
\* system: fetchPaper does, writeFile and readFile do not.
Suspends(call) == call.toolName = ToolFetchPaper

InitStep ==
  /\ files \in { <<>>, << [path |-> PaperKey(PaperOneCode), content |-> <<"o">>] >> }
  /\ cwd = VIRTUAL_ROOT
  /\ \E calls \in StepCallSeqs :
       last = [op |-> "step", calls |-> calls, start |-> files,
               pc |-> [i \in 1..Len(calls) |-> "requested"],
               outputs |-> [i \in 1..Len(calls) |-> Undefined]]

\* The execute function of the next call is invoked: it runs to its end, or
\* to its await.
StartCall ==
  /\ last.op = "step"
  /\ \E i \in 1..Len(last.calls) :
       /\ last.pc[i] = "requested"
       /\ \A j \in 1..(i - 1) : last.pc[j] # "requested"
       /\ IF Suspends(last.calls[i])
            THEN /\ last' = [last EXCEPT !.pc[i] = "awaiting"]
                 /\ UNCHANGED <<files, cwd>>
            ELSE LET r == ExecuteTool(files, cwd, last.calls[i]) IN
                 /\ files' = r.files
                 /\ cwd' = r.cwd
                 /\ last' = [last EXCEPT !.pc[i] = "done", !.outputs[i] = r.output]

\* The backend of a waiting call settles and the call runs to its end.
SettleCall ==
  /\ last.op = "step"
  /\ \E i \in 1..Len(last.calls) :
       /\ last.pc[i] = "awaiting"
       /\ LET r == ExecuteTool(files, cwd, last.calls[i]) IN
          /\ files' = r.files
          /\ cwd' = r.cwd
          /\ last' = [last EXCEPT !.pc[i] = "done", !.outputs[i] = r.output]

SpecStep == InitStep /\ [][StartCall \/ SettleCall]_vars

\* C32: at most one tool call of a run is executing at any moment, a call
\* starts only when those before it have produced their results, and the
\* files and results at the end of the step are those of the calls run one
\* after the other.
C32_AsStated ==
  last.op = "step" =>
    /\ Cardinality({ i \in 1..Len(last.calls) : last.pc[i] = "awaiting" }) <= 1
    /\ \A i \in 1..Len(last.calls) :
         last.pc[i] # "requested" => \A j \in 1..(i - 1) : last.pc[j] = "done"
    /\ (\A i \in 1..Len(last.calls) : last.pc[i] = "done") =>
         LET inTurn == ExecuteCalls(last.start, cwd, last.calls, Len(last.calls)) IN
         /\ files = inTurn.files
         /\ last.outputs = inTurn.outputs

----------------------------------------------------------------------------
(* Every operation of a run, file tools and research tools together.       *)

\* searchArxiv and getPaperSummaries among the file operations: the backend
\* rejects, finds nothing, or finds one entry.
FrameSearchArxiv ==
  \E backend \in { b \in SearchOutcomes : b.papers \in { <<>>, <<PaperOne>> } } :
    /\ last' = [op |-> "searchArxiv", rejected |-> backend.rejected,
                result |-> searchArxiv(backend)]
    /\ UNCHANGED <<files, cwd>>

FrameGetPaperSummaries ==
  \E backend \in { b \in SummaryOutcomes : b.summaries \in { <<>>, <<SummaryOne>> } } :
    /\ last' = [op |-> "getPaperSummaries", rejected |-> backend.rejected,
                result |-> getPaperSummaries(backend)]
    /\ UNCHANGED <<files, cwd>>

SpecFrame == Init /\ [][Next \/ FrameSearchArxiv \/ FrameGetPaperSummaries]_vars

\* The verb of the command a step ran, if it ran one.
ShellVerb(l) == IF l.op = "runShell" THEN VerbOf(l.command) ELSE <<>>

\* What a step leaves alone: a query leaves files and cwd, an operation on
\* files leaves cwd, cd leaves files; cwd changes by cd only; pwd returns
\* the cwd as it is.
FrameKept ==
  LET verb == ShellVerb(last') IN
  /\ (\/ last'.op \in {"read", "searchArxiv", "getPaperSummaries"}
      \/ verb \in { <<"l", "s">>, <<"p", "w", "d">>, GrepVerb }) =>
       /\ files' = files
       /\ cwd' = cwd
  /\ (last'.op \in {"write", "delete", "fetchPaper"} \/ verb = <<"r", "m">>) => cwd' = cwd
  /\ (last'.op = "cd" \/ verb = <<"c", "d">>) => files' = files
  /\ cwd' # cwd => (last'.op = "cd" \/ verb = <<"c", "d">>)
  /\ verb = <<"p", "w", "d">> => last'.result = cwd

\* C33: read, ls, grep, pwd, searchArxiv and getPaperSummaries leave files
\* and cwd unchanged; write, rm and fetchPaper leave cwd unchanged; cd leaves
\* files unchanged; cwd changes only through cd; pwd returns the cwd
\* verbatim.
C33_Frame == [][FrameKept]_vars

\* pwd ran in a directory reached by cd, with a file stored.
C33_Witness ==
  /\ last.op = "runShell"
  /\ last.command = <<"p", "w", "d">>
  /\ cwd = <<"/", "h", "o", "m", "e">>
  /\ last.result = cwd
  /\ files # <<>>

----------------------------------------------------------------------------
(* write and delete among keys that are prefixes and parents of each other *)

MaxKeyFiles == 3

\* Paths of the keys /home/user, /home/user/a (two spellings),
\* /home/user/a/b and /home/user/ab.
KeyPaths ==
  { <<".">>, <<"a">>, <<".", "/", "a">>, <<"a", "/", "b">>, <<"a", "b">> }

KeyContents == { <<"x">>, <<"y", "y">> }

InitKeys ==
  /\ files = <<>>
  /\ cwd = VIRTUAL_ROOT
  /\ last = [op |-> "new"]

KeyWrite ==
  \E path \in KeyPaths, content \in KeyContents :
    LET r == write(files, cwd, path, content) IN
    /\ Len(r.files) <= MaxKeyFiles
    /\ files' = r.files
    /\ last' = [op |-> "write", path |-> path, content |-> content, result |-> r.result]
    /\ UNCHANGED cwd

KeyDelete ==
  \E path \in KeyPaths :
    LET r == delete(files, cwd, path) IN
    /\ files' = r.files
    /\ last' = [op |-> "delete", path |-> path, content |-> <<>>, result |-> r.result]
    /\ UNCHANGED cwd

SpecKeys == InitKeys /\ [][KeyWrite \/ KeyDelete]_vars

\* The keys other than k keep their content.
OthersKept(k) ==
  \A o \in MapKeys(files) \ {k} : MapHas(files', o) /\ MapGet(files', o) = MapGet(files, o)

\* A write sets the key its path resolves to and nothing else, and says so;
\* a successful delete removes that key and nothing else.
OneKeyTouched ==
  LET k == resolve(last'.path, cwd) IN
  /\ last'.op = "write" =>
       /\ MapKeys(files') = MapKeys(files) \cup {k}
       /\ Len(files') = Cardinality(MapKeys(files'))
       /\ MapGet(files', k) = last'.content
       /\ OthersKept(k)
       /\ includes(last'.result, k)
       /\ includes(last'.result, NumToString(Len(last'.content)))
  /\ DeleteSucceeded(last') =>
       /\ MapHas(files, k)
       /\ MapKeys(files') = MapKeys(files) \ {k}
       /\ Len(files') = Len(files) - 1
       /\ OthersKept(k)

\* C34: write(p, c) changes files only at the key resolve(p), inserting or
\* overwriting it, and its message names the resolved path and the content
\* length; a successful delete(p) removes only the key resolve(p); every
\* other key, also one that has resolve(p) as a prefix or as a parent
\* directory, keeps its content.
C34_OneKey == [][OneKeyTouched]_vars

\* /home/user/a was deleted while /home/user/a/b and /home/user/ab, which
\* have it as a prefix, are still stored.
C34_Witness ==
  /\ DeleteSucceeded(last)
  /\ last.path = <<"a">>
  /\ MapKeys(files) = { VIRTUAL_ROOT \o <<"/", "a", "/", "b">>, VIRTUAL_ROOT \o <<"/", "a", "b">> }

----------------------------------------------------------------------------
(* cd, and the operations that follow it, under Spec.                      *)

IsCd(l) == l.op = "cd" \/ ShellVerb(l) = <<"c", "d">>

\* The argument of a cd: the path given to the method, or what follows the
\* verb on the command line.
CdArg(l) == IF l.op = "cd" THEN l.path ELSE slice(l.command, 3)

\* A cd succeeds whatever the path: cwd becomes the path resolved against the
\* old cwd (the old cwd itself for the empty path), the result names it, and
\* every stored file reads back under its absolute path from the new cwd.
CdMoves ==
  IsCd(last') =>
    /\ cwd' = IF CdArg(last') = <<>> THEN cwd ELSE resolve(CdArg(last'), cwd)
    /\ last'.result = ChangedDirectoryTo \o cwd'
    /\ files' = files
    /\ \A k \in MapKeys(files) : read(files', cwd', k) = MapGet(files, k)

RelativePath(p) == ~startsWith(p, <<"/">>)

\* A path of plain names: no empty, "." or ".." segment.
PlainPath(p) ==
  \A i \in 1..Len(split(p, "/")) : split(p, "/")[i] \notin { <<>>, <<".">>, <<".", ".">> }

\* read, rm, ls and grep given a relative path, or none, answer as they do
\* for that path resolved against the cwd they run in.
RelativeUsesFollowCwd ==
  /\ (last'.op = "read" /\ RelativePath(last'.path)) =>
       last'.result = read(files, <<"/">>, resolve(last'.path, cwd))
  /\ (last'.op = "delete" /\ RelativePath(last'.path)) =>
       /\ last'.result = delete(files, <<"/">>, resolve(last'.path, cwd)).result
       /\ files' = delete(files, <<"/">>, resolve(last'.path, cwd)).files
  /\ (last'.op = "runShell" /\ last'.command = <<"r", "m", " ", "a">>) =>
       /\ last'.result = delete(files, <<"/">>, resolve(<<"a">>, cwd)).result
       /\ files' = delete(files, <<"/">>, resolve(<<"a">>, cwd)).files
  /\ (last'.op = "runShell" /\ last'.command = <<"l", "s">>) =>
       last'.result = listDir(files, <<"/">>, cwd)
  /\ (last'.op = "runShell" /\ last'.command = <<"g", "r", "e", "p", " ", "a">>) =>
       last'.result = grep(files, <<"/">>, <<"a">>, cwd, 0, 0)
  /\ (last'.op = "runShell"
        /\ last'.command = <<"g", "r", "e", "p", " ", "-", "A", " ", "1", " ", "b", " ", "a">>) =>
       last'.result = grep(files, <<"/">>, <<"b">>, resolve(<<"a">>, cwd), 0, 1)

\* The content a write step stored is at key k.
WriteStoredAt(k) == MapHas(files', k) /\ MapGet(files', k) = last'.content

\* C35 as stated: cd(p) always succeeds, sets cwd to resolve(p, old cwd) and
\* names it; cd with an empty argument leaves cwd unchanged; afterwards a
\* relative path r of read, rm, ls or grep resolves against the new cwd and
\* write(r), for r made of plain names, stores at the new cwd + "/" + r;
\* files written before remain readable at their absolute paths.
C35_AsStated ==
  [][/\ CdMoves
     /\ RelativeUsesFollowCwd
     /\ (last'.op = "write" /\ RelativePath(last'.path) /\ PlainPath(last'.path)) =>
          WriteStoredAt(cwd \o <<"/">> \o last'.path)]_vars

\* C35 amended: as stated, but write(r) stores at resolve(r, new cwd), which
\* is the new cwd + "/" + r when r is made of plain names and the new cwd is
\* not the root, and "/" + r when it is the root.
C35_Cd ==
  [][/\ CdMoves
     /\ RelativeUsesFollowCwd
     /\ (last'.op = "write" /\ RelativePath(last'.path)) =>
          /\ WriteStoredAt(resolve(last'.path, cwd))
          /\ PlainPath(last'.path) =>
               resolve(last'.path, cwd) =
                 (IF cwd = <<"/">> THEN <<"/">> ELSE cwd \o <<"/">>) \o last'.path]_vars

\* After cd to the root, a was written and is stored at /a, while the file
\* written earlier is still read at /home/user/a.
C35_Witness ==
  /\ last.op = "write"
  /\ last.path = <<"a">>
  /\ cwd = <<"/">>
  /\ MapGet(files, <<"/", "a">>) = last.content
  /\ MapHas(files, VIRTUAL_ROOT \o <<"/", "a">>)
  /\ read(files, cwd, VIRTUAL_ROOT \o <<"/", "a">>) # last.content

----------------------------------------------------------------------------
(* resolve against a reference normalizer, under SpecResolve.              *)

\* The reference: the segments are read from the last to the first with a
\* count of the ".." still to be paid for; an empty or "." segment is
\* dropped, a name is dropped when a ".." is owed and kept otherwise, and
\* what is owed at the front is forgotten.
RECURSIVE KeptFromRight(_, _, _)
KeptFromRight(segs, n, owed) ==
  IF n = 0 THEN <<>>
  ELSE IF segs[n] = <<".", ".">> THEN KeptFromRight(segs, n - 1, owed + 1)
  ELSE IF segs[n] = <<>> \/ segs[n] = <<".">> THEN KeptFromRight(segs, n - 1, owed)
  ELSE IF owed > 0 THEN KeptFromRight(segs, n - 1, owed - 1)
  ELSE Append(KeptFromRight(segs, n - 1, 0), segs[n])

ReferenceNormalize(p) ==
  <<"/">> \o join(KeptFromRight(Segments(p), Len(Segments(p)), 0), <<"/">>)

\* C36: resolve agrees with the reference normalizer: an absolute path is
\* normalized on its own, whatever the cwd, and a canonical one is returned
\* unchanged, so resolve is idempotent; a relative path without "." or ".."
\* segments resolves to cwd + "/" + path with the empty segments removed;
\* the empty path resolves to cwd; and otherwise ".." removes the last
\* retained segment and "." is dropped, as in the reference.
C36_Reference ==
  last.op = "resolve" =>
    /\ last.result = ReferenceNormalize(IF startsWith(last.path, <<"/">>) THEN last.path
                                        ELSE cwd \o <<"/">> \o last.path)
    /\ startsWith(last.path, <<"/">>) =>
         /\ \A c \in ResolveCwds : resolve(last.path, c) = last.result
         /\ CanonicalOrRoot(last.path) => last.result = last.path
    /\ \A c \in ResolveCwds : resolve(last.result, c) = last.result
    /\ (RelativePath(last.path) /\ ~HasSegment(last.path, <<".">>)
          /\ ~HasSegment(last.path, <<".", ".">>)) =>
         last.result = <<"/">> \o join(NonEmptySegments(cwd \o <<"/">> \o last.path), <<"/">>)
    /\ last.path = <<>> => last.result = cwd

\* From /a/b the path ./.. was resolved: the "." was dropped and the ".."
\* took back the last segment of cwd.
C36_Witness ==
  /\ last.op = "resolve"
  /\ cwd = <<"/", "a", "/", "b">>
  /\ last.path = <<".", "/", ".", ".">>
  /\ last.result = <<"/", "a">>

----------------------------------------------------------------------------
(* grep command lines whose context sizes carry a sign.                    *)

CmdGrepBMinus == <<"g", "r", "e", "p", " ", "-", "B", " ", "-", "1", " ", "m">>
CmdGrepAMinus == <<"g", "r", "e", "p", " ", "-", "A", " ", "-", "1", " ", "m">>
CmdGrepABMinus ==
  <<"g", "r", "e", "p", " ", "-", "A", " ", "-", "2", " ", "-", "B", " ", "1", " ", "m", " ",
    "a", ".", "t", "x", "t">>

SignedCommands ==
  { CmdGrepM, CmdGrepA, CmdGrepBFile, CmdGrepAWord, CmdGrepBMinus, CmdGrepAMinus,
    CmdGrepABMinus, CmdCdDocs, CmdCdUp }

SignedShell ==
  \E command \in SignedCommands :
    LET r == runShell(files, cwd, command) IN
    /\ Len(NonEmptySegments(r.cwd)) <= MaxShellDepth
    /\ files' = r.files
    /\ cwd' = r.cwd
    /\ last' = [op |-> "runShell", command |-> command, result |-> r.result]

SpecSigned == InitShell /\ [][WriteFile \/ SignedShell]_vars

\* What the flag loop makes of a grep command line.
GrepArgs(command) == ParseGrepFlags(split(join(Tail(split(command, " ")), <<" ">>), " "), 0, 0)

\* The command line reaches VirtualFileSystem.grep.
GrepInvoked(command) ==
  /\ VerbOf(command) = GrepVerb
  /\ ~GrepArgs(command).done
  /\ GrepArgs(command).tokens # <<>>

\* C37 as stated: grep is invoked with before >= 0 and after >= 0 only, and
\* a grep command that was accepted does not answer "No matches found."
\* while a file in scope has a line that matches the pattern.
C37_AsStated ==
  (last.op = "runShell" /\ GrepInvoked(last.command)) =>
    LET parsed == GrepArgs(last.command)
        target == IF Len(parsed.tokens) >= 2 THEN resolve(parsed.tokens[2], cwd) ELSE cwd IN
    /\ parsed.before >= 0
    /\ parsed.after >= 0
    /\ last.result = NoMatchesFound => MatchLines(files, target, parsed.tokens[1]) = {}

----------------------------------------------------------------------------
(* The counts in the closing line of runAgentStreaming.                    *)

\* The closing line for n steps and m tool calls, as console.log writes it.
ClosingLine(n, m) ==
  <<"\n", "[">> \o NumToString(n) \o StepsWord \o NumToString(m) \o ToolCallsWord \o <<"\n">>

\* The number of tool-call parts among the parts of the stream.
ToolCallParts(parts) == Cardinality({ i \in DOMAIN parts : parts[i].type = "tool-call" })

StreamEnded == Streaming /\ last.pc = "done"

\* C38 as stated: when the stream has ended and M tool-call parts were in
\* it, M > 0, the last line written is "[N steps, M tool calls]" with N the
\* number of model steps performed, which is at most STREAM_STEP_LIMIT; when
\* M = 0 no such line is written.
C38_AsStated ==
  StreamEnded =>
    LET m == ToolCallParts(last.parts) IN
    IF m > 0
      THEN /\ last.out # <<>>
           /\ last.out[Len(last.out)].text = ClosingLine(last.modelSteps, m)
           /\ last.modelSteps <= STREAM_STEP_LIMIT
      ELSE \A i \in DOMAIN last.out : ~includes(last.out[i].text, ToolCallsWord)

----------------------------------------------------------------------------
(* parseArgs: the command line of the CLI.                                 *)

MaxArgs == 4

KeyOpenai == <<"o", "p", "e", "n", "a", "i">>
KeyGemini == <<"g", "e", "m", "i", "n", "i">>
KeyAnthropic == <<"a", "n", "t", "h", "r", "o", "p", "i", "c">>
MODEL_KEYS == <<KeyOpenai, KeyGemini, KeyAnthropic>>

EffortLow == <<"l", "o", "w">>
EffortMedium == <<"m", "e", "d", "i", "u", "m">>
EffortHigh == <<"h", "i", "g", "h">>
EffortOff == <<"o", "f", "f">>

FlagModel == <<"-", "-", "m", "o", "d", "e", "l">>
FlagM == <<"-", "m">>
FlagThinking == <<"-", "-", "t", "h", "i", "n", "k", "i", "n", "g">>
FlagT == <<"-", "t">>

\* Array.prototype.includes
ArrayIncludes(arr, v) == \E i \in DOMAIN arr : arr[i] = v

\* A faulty loop body: a value that is not recognised stays in the prompt.
ArgsStepKeepsValue(st, args) ==
  LET arg == args[st.i]
      value == IF st.i + 1 <= Len(args) THEN args[st.i + 1] ELSE Undefined IN
  IF arg = FlagModel \/ arg = FlagM
    THEN IF ArrayIncludes(MODEL_KEYS, value)
           THEN [st EXCEPT !.i = @ + 2, !.modelKey = value]
           ELSE [st EXCEPT !.i = @ + 1]
  ELSE IF arg = FlagThinking \/ arg = FlagT
    THEN IF ArrayIncludes(<<EffortLow, EffortMedium, EffortHigh>>, value)
           THEN [st EXCEPT !.i = @ + 2, !.thinkingEffort = value]
         ELSE IF value = EffortOff
           THEN [st EXCEPT !.i = @ + 2, !.thinkingEffort = Null]
         ELSE [st EXCEPT !.i = @ + 1]
  ELSE [st EXCEPT !.i = @ + 1, !.promptParts = Append(@, arg)]

\* The body of the loop for the argument at (1-based) position st.i; the
\* flag branches take args[++i], undefined past the end of the list.
ArgsStep(st, args) ==
  LET arg == args[st.i]
      value == IF st.i + 1 <= Len(args) THEN args[st.i + 1] ELSE Undefined IN
  IF arg = FlagModel \/ arg = FlagM
    THEN IF ArrayIncludes(MODEL_KEYS, value)
           THEN [st EXCEPT !.i = @ + 2, !.modelKey = value]
           ELSE [st EXCEPT !.i = @ + 2]
  ELSE IF arg = FlagThinking \/ arg = FlagT
    THEN IF ArrayIncludes(<<EffortLow, EffortMedium, EffortHigh>>, value)
           THEN [st EXCEPT !.i = @ + 2, !.thinkingEffort = value]
         ELSE IF value = EffortOff
           THEN [st EXCEPT !.i = @ + 2, !.thinkingEffort = Null]
         ELSE [st EXCEPT !.i = @ + 2]
  ELSE [st EXCEPT !.i = @ + 1, !.promptParts = Append(@, arg)]

RECURSIVE ArgsLoop(_, _)
ArgsLoop(st, args) == IF st.i > Len(args) THEN st ELSE ArgsLoop(ArgsStep(st, args), args)

parseArgs(args) ==
  LET st == ArgsLoop([i |-> 1, modelKey |-> KeyOpenai, thinkingEffort |-> EffortHigh,
                      promptParts |-> <<>>], args) IN
  [prompt |-> join(st.promptParts, <<" ">>), modelKey |-> st.modelKey,
   thinkingEffort |-> st.thinkingEffort]

\* The tokens of the argument lists: the four flags, values that are
\* recognised, one that is not, and the empty string.
ArgTokens ==
  { FlagModel, FlagM, FlagThinking, FlagT, KeyGemini, KeyAnthropic, EffortLow, EffortOff,
    <<"x">>, <<>> }

RECURSIVE ArgLists(_)
ArgLists(n) ==
  IF n = 0 THEN { <<>> }
  ELSE ArgLists(n - 1)
         \cup { Append(a, t) : a \in { b \in ArgLists(n - 1) : Len(b) = n - 1 }, t \in ArgTokens }

InitArgs ==
  /\ files = <<>>
  /\ cwd = VIRTUAL_ROOT
  /\ \E args \in ArgLists(MaxArgs) : last = [op |-> "argv", args |-> args]

CallParseArgs ==
  /\ last.op = "argv"
  /\ last' = [op |-> "parseArgs", args |-> last.args, result |-> parseArgs(last.args)]
  /\ UNCHANGED <<files, cwd>>

SpecArgs == InitArgs /\ [][CallParseArgs]_vars

IsModelFlag(t) == t \in {FlagModel, FlagM}
IsThinkingFlag(t) == t \in {FlagThinking, FlagT}
IsFlag(t) == IsModelFlag(t) \/ IsThinkingFlag(t)

\* The token at position i is the one a flag before it has taken: the token
\* before it is a flag that was not itself taken.
RECURSIVE Taken(_, _)
Taken(args, i) == i > 1 /\ IsFlag(args[i - 1]) /\ ~Taken(args, i - 1)

\* The positions of the values given to a flag of the kind isFlag that are
\* in the set recognised.
Settings(args, isFlag(_), recognised) ==
  { i \in DOMAIN args : Taken(args, i) /\ isFlag(args[i - 1]) /\ args[i] \in recognised }

LastOf(S) == CHOOSE i \in S : \A j \in S : j <= i

\* The positions of the tokens that are neither a flag nor taken by one.
Remaining(args) == { i \in DOMAIN args : ~Taken(args, i) /\ ~IsFlag(args[i]) }

RECURSIVE JoinAt(_, _, _)
JoinAt(args, S, n) ==
  IF n = 0 THEN <<>>
  ELSE LET before == JoinAt(args, S, n - 1) IN
       IF n \notin S THEN before
       ELSE IF \E j \in S : j < n THEN before \o <<" ">> \o args[n]
       ELSE args[n]

\* C39: each flag takes the token after it; modelKey is the last value given
\* to -m/--model that is a model key, or openai; thinkingEffort is the last
\* value given to -t/--thinking among low, medium, high and off (off gives
\* null), or high; the prompt is the remaining tokens, in order, with one
\* space between neighbours.
C39_ParseArgs ==
  last.op = "parseArgs" =>
    LET args == last.args
        models == Settings(args, IsModelFlag, {KeyOpenai, KeyGemini, KeyAnthropic})
        efforts == Settings(args, IsThinkingFlag,
                            {EffortLow, EffortMedium, EffortHigh, EffortOff}) IN
    /\ last.result.modelKey = IF models = {} THEN KeyOpenai ELSE args[LastOf(models)]
    /\ last.result.thinkingEffort =
         IF efforts = {} THEN EffortHigh
         ELSE IF args[LastOf(efforts)] = EffortOff THEN Null
         ELSE args[LastOf(efforts)]
    /\ last.result.prompt = JoinAt(args, Remaining(args), Len(args))

\* -m gemini -m x: the value x is dropped and gemini stays.
C39_Witness ==
  /\ last.op = "parseArgs"
  /\ last.args = <<FlagM, KeyGemini, FlagM, <<"x">>>>
  /\ last.result.modelKey = KeyGemini
  /\ last.result.prompt = <<>>

====
